---- MODULE Spec2Model ----
(***************************************************************************)
(* Web document extraction pipeline of openpaper (jobs/src/web_extract):   *)
(* the strategy orchestrator, the URL safety guard, the shared page fetch, *)
(* the LLM adaptive strategy with its in-process rule cache, and the       *)
(* file-locked JSON rule store with the promotion loop.                    *)
(*                                                                         *)
(* Quality scores are the integers 0..MaxScore (score_candidate clamps to  *)
(* [0,1]); success rates are tenths.  A page payload is abstracted to the  *)
(* set of rules whose container regexes yield >= 120 chars on it and the   *)
(* quality score of the text they yield.                                   *)
(***************************************************************************)
EXTENDS Integers, Sequences, FiniteSets, TLC

\* ------------------------------------------------------------- bounds
MaxScore == 3
MaxCustomLen == 2

Scores == 0..MaxScore
NoScore == 0 - 1

\* No cancellation was requested of this run.
NoCancel == 0 - 1

\* ------------------------------------------------------------- variables
VARIABLES
    acceptance_threshold,      \* orchestrator.acceptance_threshold
    minimum_acceptable_score,  \* orchestrator.minimum_acceptable_score
    strategies,                \* orchestrator.strategies (names, in order)
    pc,                        \* position of run(): "idle", "loop", "after_loop", "done"
    url,                       \* run(url=...)
    idx,                       \* index of the next strategy of the for loop
    attempts,                  \* attempts: list[ExtractionAttempt]
    best_candidate,            \* best_candidate (NoCandidate models None)
    fetched_page,              \* context.fetched_page (NoPage models None)
    statusLog,                 \* strategy names passed to status_callback
    extractLog,                \* strategy names whose extract() was called
    fetchCalls,                \* number of fetch_page invocations of this context
    outcome,                   \* how run() ended
    now,                       \* time.time() of this run
    cancelRequestedAt,         \* strategies started when the caller asked to cancel
    file,                      \* the rule store file
    cache,                     \* llm_adaptive._RULE_CACHE of this process
    oracleAsked                \* the last synthesize_rule went on to ask the oracle

orchVars == <<acceptance_threshold, minimum_acceptable_score, strategies, pc, url, idx,
              attempts, best_candidate, fetched_page, statusLog, extractLog, fetchCalls,
              outcome, now, cancelRequestedAt>>

\* ------------------------------------------------------------- URLs
\* A URL as urlparse sees it, with what getaddrinfo answers for its host:
\* "gaierror", or the classes of the addresses it resolves to.
MkUrl(s, h, p, d) == [scheme |-> s, host |-> h, path |-> p, dns |-> d]
NoUrl == MkUrl("", "", "", {})

AcceptedUrls ==
    { MkUrl("https", "example.com", "/post", {"public"}),
      MkUrl("https", "sub.example.com", "/post", {"public", "allowlisted"}),
      MkUrl("https", "arxiv.org", "/html/2401.01234", {"public"}),
      MkUrl("https", "x.com", "/u/status/1", {"public"}),
      MkUrl("http", "medium.com", "/post", {"allowlisted"}),
      MkUrl("http", "8.8.8.8", "/post", {}) }

RejectedUrls ==
    { MkUrl("http", "127.0.0.1", "/x", {}),
      MkUrl("http", "localhost", "/x", {}),
      MkUrl("ftp", "example.com", "/post", {"public"}),
      MkUrl("https", "", "/post", {}),
      MkUrl("http", "10.0.0.5", "/x", {}),
      MkUrl("http", "198.18.0.1", "/x", {}),
      MkUrl("https", "example.com", "/post", {"gaierror"}),
      MkUrl("https", "example.com", "/post", {}),
      MkUrl("https", "example.com", "/post", {"public", "private"}),
      MkUrl("https", "example.com", "/post", {"private", "allowlisted"}) }

Urls == AcceptedUrls \cup RejectedUrls

\* ------------------------------------------------------------- safety.py
_is_ip_literal(host) == host \in {"127.0.0.1", "10.0.0.5", "198.18.0.1", "8.8.8.8"}

\* ip.is_private / is_loopback / ... of a literal; of a resolved address class.
_is_non_public_ip(ip) ==
    ip \in {"127.0.0.1", "10.0.0.5", "198.18.0.1", "private", "allowlisted"}

_is_allowed_private_resolution_ip(ip) == ip \in {"198.18.0.1", "allowlisted"}

validate_public_http_url_AnyScheme(u) ==
    IF u.host = "" THEN "URL host is missing."
    ELSE IF u.host \in {"localhost", "127.0.0.1", "::1"} THEN "Localhost URLs are not allowed."
    ELSE IF _is_ip_literal(u.host)
         THEN IF _is_non_public_ip(u.host)
              THEN "Private or non-public IP addresses are not allowed."
              ELSE "ok"
    ELSE IF "gaierror" \in u.dns \/ u.dns = {} THEN "Could not resolve URL host."
    ELSE IF \E ip \in u.dns :
                _is_non_public_ip(ip) /\ ~_is_allowed_private_resolution_ip(ip)
         THEN "Resolved host maps to a private or non-public IP."
    ELSE "ok"

\* validate_public_http_url: "ok", or the message of the ValueError it raises.
validate_public_http_url(u) ==
    IF u.scheme \notin {"http", "https"} THEN "Only http/https URLs are supported."
    ELSE IF u.host = "" THEN "URL host is missing."
    ELSE IF u.host \in {"localhost", "127.0.0.1", "::1"} THEN "Localhost URLs are not allowed."
    ELSE IF _is_ip_literal(u.host)
         THEN IF _is_non_public_ip(u.host)
              THEN "Private or non-public IP addresses are not allowed."
              ELSE "ok"
    ELSE IF _is_non_public_ip(u.host)
         THEN "Private or non-public IP addresses are not allowed."
    ELSE IF "gaierror" \in u.dns THEN "Could not resolve URL host."
    ELSE IF u.dns = {} THEN "Could not resolve URL host."
    ELSE IF \E ip \in u.dns :
                _is_non_public_ip(ip) /\ ~_is_allowed_private_resolution_ip(ip)
         THEN "Resolved host maps to a private or non-public IP."
    ELSE "ok"

url_safety_validate_public_http_url_AnyAddress(u) ==
    IF u.scheme \notin {"http", "https"} THEN "Only http/https URLs are supported."
    ELSE IF u.host = "" THEN "URL host is missing."
    ELSE IF u.host \in {"localhost", "127.0.0.1", "::1"} THEN "Localhost URLs are not allowed."
    ELSE IF _is_ip_literal(u.host)
         THEN IF _is_non_public_ip(u.host)
              THEN "Private or non-public IP addresses are not allowed."
              ELSE "ok"
    ELSE IF "gaierror" \in u.dns THEN "Could not resolve URL host."
    ELSE IF u.dns = {} THEN "Could not resolve URL host."
    ELSE "ok"

\* The server's copy (app/helpers/url_safety.py): "ok" for the returned url, or
\* the message of the ValueError it raises.
url_safety_validate_public_http_url(u) ==
    IF u.scheme \notin {"http", "https"} THEN "Only http/https URLs are supported."
    ELSE IF u.host = "" THEN "URL host is missing."
    ELSE IF u.host \in {"localhost", "127.0.0.1", "::1"} THEN "Localhost URLs are not allowed."
    ELSE IF _is_ip_literal(u.host)
         THEN IF _is_non_public_ip(u.host)
              THEN "Private or non-public IP addresses are not allowed."
              ELSE "ok"
    ELSE IF _is_non_public_ip(u.host)
         THEN "Private or non-public IP addresses are not allowed."
    ELSE IF "gaierror" \in u.dns THEN "Could not resolve URL host."
    ELSE IF u.dns = {} THEN "Could not resolve URL host."
    ELSE IF \E resolved_ip \in u.dns :
                /\ _is_non_public_ip(resolved_ip)
                /\ ~_is_allowed_private_resolution_ip(resolved_ip)
         THEN "Resolved host maps to a private or non-public IP."
    ELSE "ok"

\* ------------------------------------------------------------- payloads and rules
RuleIds == {"ruleA", "ruleB"}
StaticAdapterNames == {"medium", "substack", "arxiv"}

\* What a captured payload yields: the rules and static adapters whose container
\* patterns select >= 120 chars of text from it, and the score of that text.
\* text is "" for a binary page (fetch_page suppresses the payload), else "html".
MkPayload(m, q, text) == [matches |-> m, q |-> q, text |-> text]
Rich == MkPayload(RuleIds \cup StaticAdapterNames, MaxScore, "html")
Fair == MkPayload(RuleIds \cup StaticAdapterNames, MaxScore - 1, "html")
OnlyA == MkPayload({"ruleA"}, 1, "html")
Bare == MkPayload({}, 0, "html")
Binary == MkPayload({}, 0, "")
Payloads == {Rich, Fair, OnlyA, Bare, Binary}

\* AdaptiveRule / the stored rule payload; NoRule models None.
MkRule(h, id, t) == [host |-> h, id |-> id, generated_at |-> t]
NoRule == MkRule("", "", 0)

\* ------------------------------------------------------------- rules_store.py
MaxReplaySamples == 3

VARIABLE REPLAY_MAX_SAMPLES_PER_HOST   \* WEB_EXTRACTION_REPLAY_MAX_SAMPLES, any int

EmptyDict == [h \in {} |-> 0]

_default_state ==
    [version |-> 1, generated_rules |-> EmptyDict, promoted_adapters |-> EmptyDict,
     replay_samples |-> EmptyDict]

\* The store file: absent, empty (just truncated), corrupt (not JSON), or JSON.
AbsentFile == [kind |-> "absent", state |-> _default_state]
EmptyFile == [kind |-> "empty", state |-> _default_state]
CorruptFile == [kind |-> "corrupt", state |-> _default_state]
JsonFile(state) == [kind |-> "json", state |-> state]

\* A store whose directory or file cannot be opened: mkdir, open, flock, read and
\* write raise OSError out of every store function that reaches _locked_state.
UnavailableFile == [kind |-> "unavailable", state |-> _default_state]
StoreRaises(f) == f.kind = "unavailable"
StoreError == "[Errno 13] Permission denied"

\* _ensure_store, run by a process on its own: creates the file when it is missing.
_ensure_store(f) == IF f.kind = "absent" THEN JsonFile(_default_state) ELSE f

\* The read-and-parse of _locked_state: empty or undecodable content gives defaults.
ParseFile(f) == IF f.kind = "json" THEN f.state ELSE _default_state

\* read_state: the state read; the file afterwards (_locked_state rewrites it).
read_state(f) == ParseFile(_ensure_store(f))
AfterRead(f) == JsonFile(read_state(f))

Put(dict, key, value) == (key :> value) @@ dict
Get(dict, key, default) == IF key \in DOMAIN dict THEN dict[key] ELSE default

get_generated_rule(f, host) ==
    IF host = "" THEN NoRule ELSE Get(read_state(f).generated_rules, host, NoRule)

_mutate_generated(state, host, rule) ==
    [state EXCEPT !.generated_rules = Put(@, host, [rule EXCEPT !.host = host])]

save_generated_rule(f, host, rule) ==
    IF host = "" THEN f ELSE JsonFile(_mutate_generated(read_state(f), host, rule))

_mutate_promoted(state, host, adapter) ==
    [state EXCEPT !.promoted_adapters = Put(@, host, [adapter EXCEPT !.host = host])]

save_promoted_adapter(f, host, adapter) ==
    IF host = "" THEN f ELSE JsonFile(_mutate_promoted(read_state(f), host, adapter))

\* lowered.endswith("." + key) over the hosts of the model.
EndsWithDot(host, key) ==
    <<host, key>> \in {<<"sub.example.com", "example.com">>, <<"blog.medium.com", "medium.com">>}

MkAdapter(h, id, t, ev) == [host |-> h, id |-> id, generated_at |-> t, evaluation |-> ev]
NoEvaluation == [sample_count |-> 0, successful |-> 0, errors |-> 0, score_sum |-> 0]
NoAdapter == MkAdapter("", "", 0, NoEvaluation)

PromotedLookup(promoted, host) ==
    IF host \in DOMAIN promoted THEN promoted[host]
    ELSE IF \E key \in DOMAIN promoted : EndsWithDot(host, key)
         THEN promoted[CHOOSE key \in DOMAIN promoted : EndsWithDot(host, key)]
         ELSE NoAdapter

get_promoted_adapter_for_host(f, host) ==
    IF host = "" THEN NoAdapter ELSE PromotedLookup(read_state(f).promoted_adapters, host)

\* seq[-n:] of Python: the last n for n > 0 (all when there are fewer), all for
\* n = 0 (-0 is 0), and all but the first -n for n < 0.
LastN(seq, n) ==
    IF n > 0
    THEN IF Len(seq) > n THEN SubSeq(seq, Len(seq) - n + 1, Len(seq)) ELSE seq
    ELSE SubSeq(seq, 1 - n, Len(seq))

_mutate_replay(state, host, sample) ==
    [state EXCEPT !.replay_samples =
        Put(@, host,
            IF Len(Get(@, host, <<>>)) + 1 > REPLAY_MAX_SAMPLES_PER_HOST
            THEN LastN(Append(Get(@, host, <<>>), sample), REPLAY_MAX_SAMPLES_PER_HOST)
            ELSE Append(Get(@, host, <<>>), sample))]

record_replay_sample_Skipped(f, host, sample) == f

record_replay_sample(f, host, sample) ==
    IF host = "" THEN f ELSE JsonFile(_mutate_replay(read_state(f), host, sample))

SamplesOf(state, host, limit) ==
    IF limit <= 0 THEN Get(state.replay_samples, host, <<>>)
    ELSE LastN(Get(state.replay_samples, host, <<>>), limit)

get_replay_samples(f, host, limit) ==
    IF host = "" THEN <<>> ELSE SamplesOf(read_state(f), host, limit)

\* ------------------------------------------------------------- llm_adaptive.py
VARIABLES
    LLM_PROMOTION_MIN_SAMPLES,       \* WEB_EXTRACTION_PROMOTION_MIN_SAMPLES
    LLM_PROMOTION_MAX_SAMPLES,       \* WEB_EXTRACTION_PROMOTION_MAX_SAMPLES
    LLM_PROMOTION_MIN_SUCCESS_RATE,  \* in tenths
    LLM_PROMOTION_MIN_AVG_SCORE,     \* a score
    LLM_PROMOTION_MIN_SAMPLE_SCORE   \* a score

promoVars == <<REPLAY_MAX_SAMPLES_PER_HOST, LLM_PROMOTION_MIN_SAMPLES, LLM_PROMOTION_MAX_SAMPLES,
               LLM_PROMOTION_MIN_SUCCESS_RATE, LLM_PROMOTION_MIN_AVG_SCORE,
               LLM_PROMOTION_MIN_SAMPLE_SCORE>>

\* A builder or strategy body applied to one payload, apart from any run().
VARIABLES
    max_chars,                 \* context.max_chars (WEB_EXTRACTION_MAX_CHARS, any int)
    payloadIn,                 \* the payload handed to the builder
    built                      \* what the builder returned

builderVars == <<max_chars, payloadIn, built>>

MkInput(builder, cover, entries, text, title, preview, article) ==
    [builder |-> builder, cover |-> cover, entries |-> entries, text |-> text,
     title |-> title, preview |-> preview, article |-> article]
NoInput == MkInput("", "", <<>>, "", "", "", FALSE)

\* kind: "idle" before the call, "candidate", or "none" (None or ValueError).
MkBuilt(kind, blocks, raw_len) == [kind |-> kind, blocks |-> blocks, raw_len |-> raw_len]
NoBuilt == MkBuilt("idle", <<>>, 0)

DefaultMaxChars == 120000

\* No builder call is modelled in this run.
BuilderIdle ==
    /\ max_chars = DefaultMaxChars
    /\ payloadIn = NoInput
    /\ built = NoBuilt

\* What each copy of validate_public_http_url answered for url: "" before the
\* call, "ok", or the message of the ValueError.
VARIABLE validated

NotValidated == [jobs |-> "", server |-> ""]

\* The worker processes calling the rule store, each at a point of its call.
VARIABLES
    wpc,          \* where each worker is inside _ensure_store / _locked_state
    wop,          \* the call each worker is making
    wstate,       \* the state _locked_state yielded to each worker
    issued,       \* calls started so far
    completed,    \* the mutations that returned
    partialRead   \* a reader parsed a file another process was writing

storeVars == <<wpc, wop, wstate, issued, completed, partialRead>>

Workers == {"w1", "w2"}
MaxCalls == 2

\* A rule-store call in progress: the store function running now (fn), the host
\* and the rule or payload it was given, and the locals of its caller.
MkCall(fn, host, id, payload, samples) ==
    [fn |-> fn, host |-> host, id |-> id, payload |-> payload, samples |-> samples]
NoCall == MkCall("", "", "", Binary, <<>>)

LLM_ADAPTER_ENABLED == TRUE
LLM_PROMOTION_ENABLED == TRUE
LLM_ADAPTER_CACHE_SIZE == 1
LLM_ADAPTER_CACHE_TTL_SECONDS == 1

\* _RULE_CACHE is a dict: a sequence of rules in insertion order, one per host.
CacheIndex(c, host) ==
    IF \E i \in 1..Len(c) : c[i].host = host
    THEN CHOOSE i \in 1..Len(c) : c[i].host = host
    ELSE 0

Remove(seq, i) == SubSeq(seq, 1, i - 1) \o SubSeq(seq, i + 1, Len(seq))

Expired(rule, t) == (t - rule.generated_at) > LLM_ADAPTER_CACHE_TTL_SECONDS

\* _cache_get: the rule returned, and the cache afterwards.
_cache_get(c, host, t) ==
    LET i == CacheIndex(c, host) IN
    IF i = 0 THEN NoRule
    ELSE IF Expired(c[i], t) THEN NoRule
    ELSE c[i]

CacheAfterGet(c, host, t) ==
    LET i == CacheIndex(c, host) IN
    IF i # 0 /\ Expired(c[i], t) THEN Remove(c, i) ELSE c

\* min(_RULE_CACHE.keys(), key=generated_at): the first key of least generated_at.
OldestIndex(c) ==
    CHOOSE i \in 1..Len(c) :
        /\ \A j \in 1..Len(c) : c[i].generated_at <= c[j].generated_at
        /\ \A j \in 1..(i - 1) : c[j].generated_at > c[i].generated_at

_cache_put(c, rule) ==
    LET i == CacheIndex(c, rule.host)
        c1 == IF i = 0 THEN Append(c, rule) ELSE [c EXCEPT ![i] = rule]
    IN  IF Len(c1) <= LLM_ADAPTER_CACHE_SIZE THEN c1 ELSE Remove(c1, OldestIndex(c1))

\* _from_payload: a stored rule restored with its stored generated_at.
_from_payload(host, stored) == [stored EXCEPT !.host = host]

\* get_cached_rule: [rule, cache, file] after the call.
get_cached_rule(c, f, host, t) ==
    IF host = "" THEN [rule |-> NoRule, cache |-> c, file |-> f]
    ELSE IF _cache_get(c, host, t) # NoRule
         THEN [rule |-> _cache_get(c, host, t), cache |-> c, file |-> f]
    ELSE LET c1 == CacheAfterGet(c, host, t)
             stored == get_generated_rule(f, host)
         IN  IF stored = NoRule
             THEN [rule |-> NoRule, cache |-> c1, file |-> AfterRead(f)]
             ELSE [rule |-> _from_payload(host, stored),
                   cache |-> _cache_put(c1, _from_payload(host, stored)),
                   file |-> AfterRead(f)]

\* What the oracle answers: nothing usable (no key, an error, unparsable JSON), no
\* container regexes, a confidence under LLM_ADAPTER_MIN_CONFIDENCE, or a rule.
MkAnswer(k, id) == [kind |-> k, id |-> id]
OracleAnswers ==
    {MkAnswer("error", ""), MkAnswer("no_containers", ""), MkAnswer("low_confidence", "ruleA")}
    \cup {MkAnswer("rule", id) : id \in RuleIds}

\* synthesize_rule: [rule, cache, file] after the call, and whether it went past
\* the cache and the payload check to the oracle.
synthesize_rule(c, f, host, payload, answer, t) ==
    IF ~LLM_ADAPTER_ENABLED \/ host = ""
    THEN [rule |-> NoRule, cache |-> c, file |-> f, asked |-> FALSE]
    ELSE LET got == get_cached_rule(c, f, host, t) IN
         IF got.rule # NoRule \/ payload.text = ""
         THEN [rule |-> got.rule, cache |-> got.cache, file |-> got.file, asked |-> FALSE]
         ELSE IF answer.kind # "rule"
         THEN [rule |-> NoRule, cache |-> got.cache, file |-> got.file, asked |-> TRUE]
         ELSE LET rule == MkRule(host, answer.id, t) IN
              [rule |-> rule,
               cache |-> _cache_put(got.cache, rule),
               file |-> save_generated_rule(got.file, host, rule),
               asked |-> TRUE]

\* apply_rule followed by score_candidate: the score, or NoScore when apply_rule raises.
ApplyScore(id, payload) == IF id \in payload.matches THEN payload.q ELSE NoScore

MkSample(h, payload) == [host |-> h, payload |-> payload]

RECURSIVE ScoreSum(_, _)
ScoreSum(samples, id) ==
    IF samples = <<>> THEN 0
    ELSE (IF ApplyScore(id, Head(samples).payload) = NoScore THEN 0
          ELSE ApplyScore(id, Head(samples).payload)) + ScoreSum(Tail(samples), id)

\* The replay loop of evaluate_and_promote_rule.
Evaluation(samples, id) ==
    [sample_count |-> Len(samples),
     successful |-> Cardinality({i \in 1..Len(samples) :
                        /\ ApplyScore(id, samples[i].payload) # NoScore
                        /\ ApplyScore(id, samples[i].payload) >= LLM_PROMOTION_MIN_SAMPLE_SCORE}),
     errors |-> Cardinality({i \in 1..Len(samples) :
                        ApplyScore(id, samples[i].payload) = NoScore}),
     score_sum |-> ScoreSum(samples, id)]

Max(a, b) == IF a >= b THEN a ELSE b

Promoted_RateOnly(ev) ==
    ev.successful * 10 >= LLM_PROMOTION_MIN_SUCCESS_RATE * Max(1, ev.sample_count)

\* promoted = success_rate >= MIN_SUCCESS_RATE and avg_score >= MIN_AVG_SCORE
Promoted(ev) ==
    /\ ev.successful * 10 >= LLM_PROMOTION_MIN_SUCCESS_RATE * Max(1, ev.sample_count)
    /\ IF ev.sample_count - ev.errors > 0
       THEN ev.score_sum >= LLM_PROMOTION_MIN_AVG_SCORE * (ev.sample_count - ev.errors)
       ELSE 0 >= LLM_PROMOTION_MIN_AVG_SCORE

\* evaluate_and_promote_rule run by a process on its own: the file afterwards.
evaluate_and_promote_rule(f, host, rule) ==
    IF host = "" \/ ~LLM_PROMOTION_ENABLED THEN f
    ELSE IF get_promoted_adapter_for_host(f, host) # NoAdapter THEN AfterRead(f)
    ELSE LET samples == get_replay_samples(f, host, LLM_PROMOTION_MAX_SAMPLES) IN
         IF Len(samples) < LLM_PROMOTION_MIN_SAMPLES THEN AfterRead(f)
         ELSE IF Promoted(Evaluation(samples, rule.id))
              THEN save_promoted_adapter(f, host,
                       MkAdapter(host, rule.id, rule.generated_at, Evaluation(samples, rule.id)))
              ELSE AfterRead(f)

\* ------------------------------------------------- llm_adaptive.py, threads on _RULE_CACHE
\* The threads of one process that call _cache_get and _cache_put on the shared
\* _RULE_CACHE, each at a statement of its call with the locals of that call.
VARIABLE cacheThreads

CacheThreadIds == {"t1", "t2"}

MkCacheThread(at, host, rule, keys, oldest_key, error, lost, calls) ==
    [pc |-> at, host |-> host, rule |-> rule, keys |-> keys, oldest_key |-> oldest_key,
     error |-> error, lost |-> lost, calls |-> calls]

CacheIdle == [t \in CacheThreadIds |-> MkCacheThread("idle", "", NoRule, {}, "", "", FALSE, 0)]

vars == <<orchVars, file, cache, oracleAsked, promoVars, storeVars, builderVars, validated, cacheThreads>>

\* ------------------------------------------------------------- adapter_registry.py
\* any(lowered.endswith(suffix) ...) over the hosts of the model.
EndsWith(host, suffix) ==
    \/ host = suffix
    \/ EndsWithDot(host, suffix)
    \/ <<host, suffix>> \in {<<"notmedium.com", "medium.com">>}

StaticAdapterFor(host) ==
    IF EndsWith(host, "medium.com") THEN "medium"
    ELSE IF EndsWith(host, "substack.com") THEN "substack"
    ELSE IF EndsWith(host, "arxiv.org") THEN "arxiv"
    ELSE ""

get_adapter_for_host_StaticFirst(f, host) ==
    IF StaticAdapterFor(host) # "" THEN StaticAdapterFor(host)
    ELSE get_promoted_adapter_for_host(f, host).id

\* get_adapter_for_host: the container patterns of the adapter returned (a promoted
\* rule's id, or a static adapter's name), "" for None.
get_adapter_for_host(f, host) ==
    IF get_promoted_adapter_for_host(f, host) # NoAdapter
       /\ get_promoted_adapter_for_host(f, host).id # ""
    THEN get_promoted_adapter_for_host(f, host).id
    ELSE StaticAdapterFor(host)

\* ------------------------------------------------------------- models.py, fetcher.py
MkPage(h, p, payload) == [fetched |-> TRUE, final_host |-> h, final_path |-> p, payload |-> payload]
NoPage == [fetched |-> FALSE, final_host |-> "", final_path |-> "", payload |-> Binary]

MkLoc(h, p) == [host |-> h, path |-> p]

\* response.url after redirects.
FinalUrls(u) ==
    {MkLoc(u.host, u.path)}
    \cup (IF u.host = "sub.example.com" THEN {MkLoc("example.com", u.path)} ELSE {})
    \cup (IF u.host = "arxiv.org" THEN {MkLoc("arxiv.org", "/abs/2401.01234")} ELSE {})

\* fetch_page: the pages it can return; it can also raise.
fetch_page(u) == {MkPage(l.host, l.path, p) : l \in FinalUrls(u), p \in Payloads}

MkCandidate(name, loc, q) ==
    [strategy_name |-> name, url |-> loc, content_q |-> q, quality_score |-> 0, idx |-> 0]
NoCandidate == MkCandidate("", MkLoc("", ""), 0)

MkAttempt_ScoreOnFailure(name, success, score, reason) ==
    [strategy_name |-> name, success |-> success,
     score |-> IF success THEN score ELSE 0,
     confidence |-> IF success THEN score ELSE 0, reason |-> reason]

\* ExtractionAttempt: score and confidence come together from one ScoreResult and
\* are None (NoScore) by default; reason is None (<<>>) by default.
MkAttempt(name, success, score, reason) ==
    [strategy_name |-> name, success |-> success, score |-> score, confidence |-> score,
     reason |-> reason]

\* What extract() did: a candidate, or an exception with its str().
Ok(cand) == [ok |-> TRUE, reason |-> "", cand |-> cand]
Fail(reason) == [ok |-> FALSE, reason |-> reason, cand |-> NoCandidate]

\* ------------------------------------------------------------- scoring.py
\* score_candidate is a function of the candidate's content alone.
score_candidate(cand) == cand.content_q

\* ------------------------------------------------------------- strategies.py
_get_page_Refetch ==
    {[ok |-> FALSE, page |-> fetched_page, calls |-> fetchCalls + 1]}
    \cup {[ok |-> TRUE, page |-> p, calls |-> fetchCalls + 1] : p \in fetch_page(url)}

\* ExtractorStrategy._get_page: every way the call can end.
_get_page ==
    IF fetched_page = NoPage
    THEN {[ok |-> FALSE, page |-> NoPage, calls |-> fetchCalls + 1]}
         \cup {[ok |-> TRUE, page |-> p, calls |-> fetchCalls + 1] : p \in fetch_page(url)}
    ELSE {[ok |-> TRUE, page |-> fetched_page, calls |-> fetchCalls]}

FetchFailure == Fail("Failed to fetch URL content.")

_parse_x_status_url(u) ==
    u.host \in {"x.com", "www.x.com", "twitter.com", "www.twitter.com",
                "mobile.x.com", "mobile.twitter.com"}
    /\ u.path \in {"/u/status/1", "/status/1", "/i/status/1", "/i/web/status/1"}

_is_arxiv_url(host) == host = "arxiv.org" \/ EndsWithDot(host, "arxiv.org")

IsHtmlPath(path) == path = "/html/2401.01234"

\* XStatusApiStrategy.extract
XStatusApiExtract ==
    IF ~_parse_x_status_url(url)
    THEN {Fail("URL is not an X/Twitter status link.")}
    ELSE {Fail("api.vxtwitter.com returned no usable content")}
         \cup {Ok(MkCandidate("x_status_api", MkLoc(url.host, url.path), q)) : q \in Scores}

\* DomainAdapterStrategy.extract on a fetched page.
DomainAdapterExtract(page) ==
    LET adapter == get_adapter_for_host(file, page.final_host) IN
    IF page.final_host # "" /\ StoreRaises(file) THEN Fail(StoreError)
    ELSE IF adapter = "" THEN Fail("No domain adapter configured for host.")
    ELSE IF adapter \notin page.payload.matches
         THEN Fail("Adapter found no matching containers.")
    ELSE Ok(MkCandidate("domain_adapter", MkLoc(page.final_host, page.final_path),
                        page.payload.q))

\* ArxivHtmlStrategy.extract on a fetched page.
ArxivHtmlExtract(page) ==
    IF ~_is_arxiv_url(page.final_host) THEN {Fail("URL is not an arXiv host.")}
    ELSE IF ~IsHtmlPath(page.final_path)
         THEN {Fail("URL is not an arXiv HTML document path.")}
    ELSE IF page.payload.text = ""
         THEN {Fail("arXiv URL returned binary content instead of HTML.")}
    ELSE {Fail("arXiv HTML extraction produced insufficient readable content.")}
         \cup {Ok(MkCandidate("arxiv_html", MkLoc(page.final_host, page.final_path), q)) :
                  q \in Scores}

\* JsonLdStrategy.extract on a fetched page.
JsonLdExtract(page) ==
    IF page.payload.text = "" THEN {Fail("No JSON-LD payload found.")}
    ELSE {Fail("No JSON-LD payload found.")}
         \cup {Ok(MkCandidate("json_ld", MkLoc(url.host, url.path), q)) : q \in Scores}

\* HttpReadabilityStrategy.extract on a fetched page.
HttpReadabilityExtract(page) ==
    IF page.payload.text = ""
    THEN {Fail("Binary payload cannot be extracted as readable article text.")}
    ELSE {Fail("Could not extract enough readable article content from URL.")}
         \cup {Ok(MkCandidate("http_readability", MkLoc(url.host, url.path), q)) : q \in Scores}

\* LlmAdaptiveStrategy.extract on a fetched page, for one answer of the oracle:
\* [res, cache, file].
LlmAdaptiveExtract(page, answer) ==
    LET host == page.final_host
        payload == page.payload
        f1 == record_replay_sample(file, host, MkSample(host, payload))
        got == get_cached_rule(cache, f1, host, now)
        viaCache == got.rule # NoRule /\ ApplyScore(got.rule.id, payload) # NoScore
        syn == synthesize_rule(got.cache, got.file, host, payload, answer, now)
    IN  IF host # "" /\ StoreRaises(file)
        THEN [res |-> Fail(StoreError), cache |-> cache, file |-> file, asked |-> FALSE]
        ELSE IF viaCache
        THEN [res |-> Ok(MkCandidate("llm_adaptive_cached", MkLoc(url.host, url.path),
                                     ApplyScore(got.rule.id, payload))),
              cache |-> got.cache, file |-> got.file, asked |-> FALSE]
        ELSE IF syn.rule = NoRule
        THEN [res |-> Fail("No valid LLM adaptive rule available."),
              cache |-> syn.cache, file |-> syn.file, asked |-> syn.asked]
        ELSE IF ApplyScore(syn.rule.id, payload) = NoScore
        THEN [res |-> Fail("LLM rule produced no matching content fragments."),
              cache |-> syn.cache, file |-> syn.file, asked |-> syn.asked]
        ELSE [res |-> Ok(MkCandidate("llm_adaptive_generated", MkLoc(url.host, url.path),
                                     ApplyScore(syn.rule.id, payload))),
              cache |-> syn.cache,
              file |-> evaluate_and_promote_rule(syn.file, host, syn.rule),
              asked |-> syn.asked]

\* A caller-supplied strategy: any candidate, or any exception.
CustomExtract(name) ==
    {Fail(""), Fail("boom")}
    \cup {Ok(MkCandidate(name, MkLoc(url.host, url.path), q)) : q \in Scores}

\* ------------------------------------------------------------- orchestrator.py
DefaultStrategies ==
    <<"x_status_api", "domain_adapter", "json_ld", "http_readability", "llm_adaptive">>

CustomNames == {"custom_a", "custom_b"}

\* Strategy lists a caller passes as strategies=[...].
CustomLists == UNION {[1..n -> CustomNames] : n \in 1..MaxCustomLen}

\* A list that registers ArxivHtmlStrategy, which the default list does not.
ArxivLists == {<<"domain_adapter", "arxiv_html", "json_ld">>}

MkOutcome(kind, error, reasons, result, trace) ==
    [kind |-> kind, error |-> error, failure_reasons |-> reasons, result |-> result,
     trace |-> trace]
NoOutcome == MkOutcome("none", "", <<>>, NoCandidate, <<>>)

\* run(), up to the loop: validate_public_http_url, then the context and the locals.
Run ==
    /\ pc = "idle"
    /\ \E u \in Urls :
        /\ url' = u
        /\ IF validate_public_http_url(u) # "ok"
           THEN /\ pc' = "done"
                /\ outcome' = MkOutcome("DisallowedUrl", validate_public_http_url(u), <<>>,
                                        NoCandidate, <<>>)
                /\ idx' = idx
           ELSE /\ pc' = "loop"
                /\ outcome' = outcome
                /\ idx' = 1
    /\ attempts' = <<>>
    /\ best_candidate' = NoCandidate
    /\ fetched_page' = NoPage
    /\ UNCHANGED <<acceptance_threshold, minimum_acceptable_score, strategies, statusLog,
                   extractLog, fetchCalls, now, file, cache, oracleAsked, promoVars, storeVars,
                   cancelRequestedAt, builderVars, validated, cacheThreads>>

Better_LastOnTies(cand, best) ==
    best = NoCandidate \/ cand.quality_score >= best.quality_score

\* if not best_candidate or candidate.quality_score > best_candidate.quality_score
Better(cand, best) == best = NoCandidate \/ cand.quality_score > best.quality_score

Break_Strict(ok, score) == ok /\ score > acceptance_threshold

Break_OnFailure(ok, score) == ~ok \/ score >= acceptance_threshold

\* if candidate.quality_score >= self.acceptance_threshold: break (the except
\* branch has no break).
Break(ok, score) == ok /\ score >= acceptance_threshold

BelowMinimum_Inclusive(best) == best.quality_score <= minimum_acceptable_score

\* if best_candidate.quality_score < self.minimum_acceptable_score
BelowMinimum(best) == best.quality_score < minimum_acceptable_score

\* One iteration of the loop for the strategy at idx, whose extract() ended as res.
LoopBody(res) ==
    LET name == strategies[idx]
        scored == [res.cand EXCEPT !.quality_score = score_candidate(res.cand), !.idx = idx]
        stop == Break(res.ok, scored.quality_score)
    IN  /\ statusLog' = Append(statusLog, name)
        /\ extractLog' = Append(extractLog, name)
        /\ attempts' = Append(attempts,
                          IF res.ok
                          THEN MkAttempt(name, TRUE, scored.quality_score, <<>>)
                          ELSE MkAttempt(name, FALSE, NoScore, <<res.reason>>))
        /\ best_candidate' = IF res.ok /\ Better(scored, best_candidate)
                             THEN scored ELSE best_candidate
        /\ IF stop \/ idx = Len(strategies)
           THEN pc' = "after_loop" /\ idx' = idx
           ELSE pc' = "loop" /\ idx' = idx + 1
        /\ UNCHANGED <<acceptance_threshold, minimum_acceptable_score, strategies, url,
                       outcome, now, promoVars, storeVars, cancelRequestedAt, builderVars,
                       validated, cacheThreads>>

AtStrategy(name) == pc = "loop" /\ strategies[idx] = name

XStatusApiStep ==
    /\ AtStrategy("x_status_api")
    /\ \E res \in XStatusApiExtract : LoopBody(res)
    /\ UNCHANGED <<fetched_page, fetchCalls, file, cache, oracleAsked>>

DomainAdapterStep ==
    /\ AtStrategy("domain_adapter")
    /\ \E got \in _get_page :
        /\ fetched_page' = got.page
        /\ fetchCalls' = got.calls
        /\ file' = IF got.ok /\ got.page.final_host # "" /\ ~StoreRaises(file)
                   THEN AfterRead(file) ELSE file
        /\ LoopBody(IF got.ok THEN DomainAdapterExtract(got.page) ELSE FetchFailure)
    /\ UNCHANGED <<cache, oracleAsked>>

ArxivHtmlStep ==
    /\ AtStrategy("arxiv_html")
    /\ IF ~_is_arxiv_url(url.host)
       THEN /\ LoopBody(Fail("URL is not an arXiv host."))
            /\ UNCHANGED <<fetched_page, fetchCalls>>
       ELSE \E got \in _get_page :
            /\ fetched_page' = got.page
            /\ fetchCalls' = got.calls
            /\ \E res \in (IF got.ok THEN ArxivHtmlExtract(got.page) ELSE {FetchFailure}) :
                  LoopBody(res)
    /\ UNCHANGED <<file, cache, oracleAsked>>

JsonLdStep ==
    /\ AtStrategy("json_ld")
    /\ \E got \in _get_page :
        /\ fetched_page' = got.page
        /\ fetchCalls' = got.calls
        /\ \E res \in (IF got.ok THEN JsonLdExtract(got.page) ELSE {FetchFailure}) :
              LoopBody(res)
    /\ UNCHANGED <<file, cache, oracleAsked>>

HttpReadabilityStep ==
    /\ AtStrategy("http_readability")
    /\ \E got \in _get_page :
        /\ fetched_page' = got.page
        /\ fetchCalls' = got.calls
        /\ \E res \in (IF got.ok THEN HttpReadabilityExtract(got.page) ELSE {FetchFailure}) :
              LoopBody(res)
    /\ UNCHANGED <<file, cache, oracleAsked>>

LlmAdaptiveStep ==
    /\ AtStrategy("llm_adaptive")
    /\ \E got \in _get_page :
        /\ fetched_page' = got.page
        /\ fetchCalls' = got.calls
        /\ IF got.ok
           THEN \E answer \in OracleAnswers :
                  /\ LoopBody(LlmAdaptiveExtract(got.page, answer).res)
                  /\ cache' = LlmAdaptiveExtract(got.page, answer).cache
                  /\ file' = LlmAdaptiveExtract(got.page, answer).file
                  /\ oracleAsked' = LlmAdaptiveExtract(got.page, answer).asked
           ELSE LoopBody(FetchFailure) /\ UNCHANGED <<file, cache, oracleAsked>>

CustomStep ==
    /\ pc = "loop"
    /\ strategies[idx] \in CustomNames
    /\ \E res \in CustomExtract(strategies[idx]) : LoopBody(res)
    /\ UNCHANGED <<fetched_page, fetchCalls, file, cache, oracleAsked>>

\* attempt.reason or 'unknown error'
ReasonText(reason) == IF reason = <<>> \/ reason = <<"">> THEN "unknown error" ELSE reason[1]

Failed(attempt) == ~attempt.success

\* "; ".join(f"{strategy_name}: {reason}" for the failed attempts), as its parts.
FailureReasons(atts) ==
    LET failed == SelectSeq(atts, Failed) IN
    [i \in 1..Len(failed) |-> <<failed[i].strategy_name, ReasonText(failed[i].reason)>>]

\* run(), after the loop: the two RuntimeErrors, or to_webhook_result.
AfterLoop ==
    /\ pc = "after_loop"
    /\ pc' = "done"
    /\ outcome' =
         IF best_candidate = NoCandidate
         THEN MkOutcome("ExtractionFailed", "Failed to extract readable article content.",
                        FailureReasons(attempts), NoCandidate, <<>>)
         ELSE IF BelowMinimum(best_candidate)
         THEN MkOutcome("QualityBelowThreshold",
                        "Extraction quality below acceptable threshold", <<>>, NoCandidate, <<>>)
         ELSE MkOutcome("result", "", <<>>, best_candidate, attempts)
    /\ UNCHANGED <<acceptance_threshold, minimum_acceptable_score, strategies, url, idx,
                   attempts, best_candidate, fetched_page, statusLog, extractLog, fetchCalls,
                   now, file, cache, oracleAsked, promoVars, storeVars, cancelRequestedAt, builderVars,
                   validated, cacheThreads>>

\* No worker is inside a rule-store call.
StoreIdle ==
    /\ wpc = [w \in Workers |-> "idle"]
    /\ wop = [w \in Workers |-> NoCall]
    /\ wstate = [w \in Workers |-> _default_state]
    /\ issued = 0
    /\ completed = {}
    /\ partialRead = FALSE

\* Rule store contents an orchestration can start from.
SeedSamples(h) == <<MkSample(h, Rich), MkSample(h, Fair)>>
InitFiles ==
    {AbsentFile, UnavailableFile,
     JsonFile([_default_state EXCEPT
        !.replay_samples = Put(EmptyDict, "example.com", SeedSamples("example.com"))]),
     JsonFile([_default_state EXCEPT
        !.generated_rules = Put(EmptyDict, "example.com", MkRule("example.com", "ruleA", 0))]),
     JsonFile([_default_state EXCEPT
        !.promoted_adapters = Put(EmptyDict, "example.com",
            MkAdapter("example.com", "ruleB", 0,
                      [sample_count |-> 3, successful |-> 3, errors |-> 0,
                       score_sum |-> 3 * MaxScore]))])}

InitCaches == {<<>>, <<MkRule("example.com", "ruleB", 2)>>}

Init ==
    /\ acceptance_threshold \in Scores
    /\ minimum_acceptable_score \in Scores
    /\ strategies \in {DefaultStrategies} \cup ArxivLists \cup CustomLists
    /\ pc = "idle"
    /\ url = NoUrl
    /\ idx = 0
    /\ attempts = <<>>
    /\ best_candidate = NoCandidate
    /\ fetched_page = NoPage
    /\ statusLog = <<>>
    /\ extractLog = <<>>
    /\ fetchCalls = 0
    /\ outcome = NoOutcome
    /\ now = 2
    /\ cancelRequestedAt = NoCancel
    /\ file \in InitFiles
    /\ cache \in InitCaches
    /\ LLM_PROMOTION_MIN_SAMPLES = 3
    /\ LLM_PROMOTION_MAX_SAMPLES = 6
    /\ LLM_PROMOTION_MIN_SUCCESS_RATE = 8
    /\ LLM_PROMOTION_MIN_AVG_SCORE = 2
    /\ LLM_PROMOTION_MIN_SAMPLE_SCORE = 2
    /\ REPLAY_MAX_SAMPLES_PER_HOST = MaxReplaySamples
    /\ StoreIdle
    /\ cacheThreads = CacheIdle
    /\ validated = NotValidated
    /\ oracleAsked = FALSE
    /\ BuilderIdle

Next ==
    \/ Run
    \/ XStatusApiStep
    \/ DomainAdapterStep
    \/ ArxivHtmlStep
    \/ JsonLdStep
    \/ HttpReadabilityStep
    \/ LlmAdaptiveStep
    \/ CustomStep
    \/ AfterLoop

Spec == Init /\ [][Next]_vars

\* ------------------------------------------------------------- concurrent workers
\* Worker processes share the store file; each call on the store runs
\* _ensure_store and then one _locked_state transaction.
StoreHost == "example.com"
StorePayloads == {Rich, OnlyA}

\* The calls LlmAdaptiveStrategy.extract makes on the store; evaluate_and_promote_rule
\* begins with get_promoted_adapter_for_host.
StoreCalls ==
    {MkCall("save_generated_rule", StoreHost, id, Binary, <<>>) : id \in RuleIds}
    \cup {MkCall("record_replay_sample", StoreHost, "", p, <<>>) : p \in StorePayloads}
    \cup {MkCall("get_promoted_adapter_for_host", StoreHost, id, Binary, <<>>) : id \in RuleIds}

Mutations == {"save_generated_rule", "record_replay_sample", "save_promoted_adapter"}

\* The state the transaction of a call writes back: the mutator applied, or the
\* state as read for read_state.
Mutated(call, st) ==
    IF call.fn = "save_generated_rule"
    THEN _mutate_generated(st, call.host, MkRule(call.host, call.id, now))
    ELSE IF call.fn = "record_replay_sample"
    THEN _mutate_replay(st, call.host, MkSample(call.host, call.payload))
    ELSE IF call.fn = "save_promoted_adapter"
    THEN _mutate_promoted(st, call.host,
             MkAdapter(call.host, call.id, now, Evaluation(call.samples, call.id)))
    ELSE st

\* evaluate_and_promote_rule between its store calls: the next store call it makes
\* after the one that returned st, NoCall when it (or a plain mutation) returns.
Continue(call, st) ==
    IF call.fn = "get_promoted_adapter_for_host"
    THEN IF PromotedLookup(st.promoted_adapters, call.host) # NoAdapter
         THEN NoCall
         ELSE MkCall("get_replay_samples", call.host, call.id, Binary, <<>>)
    ELSE IF call.fn = "get_replay_samples"
    THEN LET samples == SamplesOf(st, call.host, LLM_PROMOTION_MAX_SAMPLES) IN
         IF Len(samples) < LLM_PROMOTION_MIN_SAMPLES THEN NoCall
         ELSE IF Promoted(Evaluation(samples, call.id))
         THEN MkCall("save_promoted_adapter", call.host, call.id, Binary, samples)
         ELSE NoCall
    ELSE NoCall

\* path.write_text writing the default JSON at offset 0 of the file it truncated:
\* longer content written meanwhile keeps its tail and is no longer JSON.
Overwritten(f) ==
    IF f.kind = "corrupt" \/ (f.kind = "json" /\ f.state # _default_state)
    THEN CorruptFile
    ELSE JsonFile(_default_state)

Unlocked == \A v \in Workers : wpc[v] # "locked"

StartCall(w) ==
    /\ wpc[w] = "idle"
    /\ issued < MaxCalls
    /\ \E call \in StoreCalls : wop' = [wop EXCEPT ![w] = call]
    /\ wpc' = [wpc EXCEPT ![w] = "ensure"]
    /\ issued' = issued + 1
    /\ UNCHANGED <<orchVars, file, cache, oracleAsked, promoVars, wstate, completed, partialRead, builderVars,
                   validated, cacheThreads>>

\* _ensure_store: if not path.exists()
PathExists(w) ==
    /\ wpc[w] = "ensure"
    /\ wpc' = [wpc EXCEPT ![w] = IF file.kind = "absent" THEN "write_text" ELSE "open"]
    /\ UNCHANGED <<orchVars, file, cache, oracleAsked, promoVars, wop, wstate, issued, completed,
                   partialRead, builderVars, validated, cacheThreads>>

\* _ensure_store: path.write_text opens the file, creating or truncating it
WriteTextOpen(w) ==
    /\ wpc[w] = "write_text"
    /\ file' = EmptyFile
    /\ wpc' = [wpc EXCEPT ![w] = "write_text_data"]
    /\ UNCHANGED <<orchVars, cache, oracleAsked, promoVars, wop, wstate, issued, completed, partialRead, builderVars,
                   validated, cacheThreads>>

\* _ensure_store: path.write_text writes json.dumps(_default_state())
WriteTextData(w) ==
    /\ wpc[w] = "write_text_data"
    /\ file' = Overwritten(file)
    /\ wpc' = [wpc EXCEPT ![w] = "open"]
    /\ UNCHANGED <<orchVars, cache, oracleAsked, promoVars, wop, wstate, issued, completed, partialRead, builderVars,
                   validated, cacheThreads>>

\* _locked_state up to the yield: open, flock(LOCK_EX), read, parse
LockAndRead(w) ==
    /\ wpc[w] = "open"
    /\ Unlocked
    /\ wstate' = [wstate EXCEPT ![w] = ParseFile(file)]
    /\ partialRead' = (partialRead \/ file.kind \in {"empty", "corrupt"})
    /\ wpc' = [wpc EXCEPT ![w] = "locked"]
    /\ UNCHANGED <<orchVars, file, cache, oracleAsked, promoVars, wop, issued, completed, builderVars, validated, cacheThreads>>

\* _locked_state from the yield: the mutator, truncate, write, fsync, flock(LOCK_UN);
\* then the caller goes on to its next store call or returns.
WriteAndUnlock(w) ==
    /\ wpc[w] = "locked"
    /\ file' = JsonFile(Mutated(wop[w], wstate[w]))
    /\ completed' = IF wop[w].fn \in Mutations THEN completed \cup {wop[w]} ELSE completed
    /\ wop' = [wop EXCEPT ![w] = Continue(wop[w], wstate[w])]
    /\ wpc' = [wpc EXCEPT ![w] =
                  IF Continue(wop[w], wstate[w]) = NoCall THEN "idle" ELSE "ensure"]
    /\ wstate' = [wstate EXCEPT ![w] = _default_state]
    /\ UNCHANGED <<orchVars, cache, oracleAsked, promoVars, issued, partialRead, builderVars, validated, cacheThreads>>

\* The configurations of the promotion thresholds the workers run under.
PromotionMinSamples == {1, 2}
PromotionMaxSamples == {2, 3}
PromotionMinSuccessRates == {5, 8}
PromotionMinAvgScores == {2, 3}
PromotionMinSampleScores == {2, 3}

StoreInitFiles ==
    {AbsentFile,
     JsonFile([_default_state EXCEPT
        !.replay_samples = Put(EmptyDict, StoreHost, SeedSamples(StoreHost))])}

StoreInit ==
    /\ acceptance_threshold = MaxScore
    /\ minimum_acceptable_score = 1
    /\ strategies = DefaultStrategies
    /\ pc = "idle"
    /\ url = NoUrl
    /\ idx = 0
    /\ attempts = <<>>
    /\ best_candidate = NoCandidate
    /\ fetched_page = NoPage
    /\ statusLog = <<>>
    /\ extractLog = <<>>
    /\ fetchCalls = 0
    /\ outcome = NoOutcome
    /\ now = 2
    /\ cancelRequestedAt = NoCancel
    /\ cache = <<>>
    /\ file \in StoreInitFiles
    /\ LLM_PROMOTION_MIN_SAMPLES \in PromotionMinSamples
    /\ LLM_PROMOTION_MAX_SAMPLES \in PromotionMaxSamples
    /\ LLM_PROMOTION_MIN_SUCCESS_RATE \in PromotionMinSuccessRates
    /\ LLM_PROMOTION_MIN_AVG_SCORE \in PromotionMinAvgScores
    /\ LLM_PROMOTION_MIN_SAMPLE_SCORE \in PromotionMinSampleScores
    /\ REPLAY_MAX_SAMPLES_PER_HOST = MaxReplaySamples
    /\ StoreIdle
    /\ cacheThreads = CacheIdle
    /\ validated = NotValidated
    /\ oracleAsked = FALSE
    /\ BuilderIdle

StoreNext ==
    \E w \in Workers :
        \/ StartCall(w)
        \/ PathExists(w)
        \/ WriteTextOpen(w)
        \/ WriteTextData(w)
        \/ LockAndRead(w)
        \/ WriteAndUnlock(w)

StoreSpec == StoreInit /\ [][StoreNext]_vars

\* ============================================================= claims
Succeeded == {i \in 1..Len(attempts) : attempts[i].success}
Returned == pc = "done" /\ outcome.kind = "result"
Raised(kind) == pc = "done" /\ outcome.kind = kind
LoopLeft == pc = "after_loop" \/ (pc = "done" /\ outcome.kind # "DisallowedUrl")

\* C1: when run() returns a result, the returned candidate is the one of highest
\* quality_score among the strategies that succeeded in the run, and the earliest
\* of them on a tie.
C1_ReturnsBestCandidate ==
    Returned =>
        /\ outcome.result.idx \in Succeeded
        /\ outcome.result.strategy_name # ""
        /\ outcome.result.quality_score = attempts[outcome.result.idx].score
        /\ \A i \in Succeeded :
            /\ attempts[i].score <= outcome.result.quality_score
            /\ attempts[i].score = outcome.result.quality_score => outcome.result.idx <= i

\* A run that returned the earlier of two equally scored candidates and passed
\* over a lower one.
C1_Witness ==
    /\ Returned
    /\ \E i, j, k \in Succeeded :
        /\ i < j
        /\ outcome.result.idx = i
        /\ attempts[j].score = attempts[i].score
        /\ attempts[k].score < attempts[i].score

\* C2: an attempt whose score reached acceptance_threshold is the last one (no
\* status, no extract call and no attempt for any later strategy); the statuses,
\* the extract calls and the attempts are the strategies in list order; and a loop
\* left with no score at the threshold has attempted every strategy of the list.
C2_EarlyStop ==
    /\ \A i \in Succeeded :
          attempts[i].score >= acceptance_threshold => i = Len(attempts)
    /\ Len(attempts) <= Len(strategies)
    /\ statusLog = SubSeq(strategies, 1, Len(attempts))
    /\ extractLog = statusLog
    /\ \A i \in 1..Len(attempts) : attempts[i].strategy_name = strategies[i]
    /\ (LoopLeft /\ \A i \in Succeeded : attempts[i].score < acceptance_threshold)
          => Len(attempts) = Len(strategies)

\* The default list cut short by its second strategy.
C2_Witness ==
    /\ pc = "done"
    /\ strategies = DefaultStrategies
    /\ Len(attempts) = 2
    /\ attempts[2].success
    /\ statusLog = <<"x_status_api", "domain_adapter">>

\* C3: run() ends in exactly one of three ways: ExtractionFailed, with one
\* "<strategy>: <reason>" part per failed attempt, when no strategy produced a
\* candidate; else QualityBelowThreshold when the best score is under
\* minimum_acceptable_score; else the result. No result is under the minimum.
C3_ThreeOutcomes ==
    (pc = "done" /\ outcome.kind # "DisallowedUrl") =>
        /\ outcome.kind \in {"ExtractionFailed", "QualityBelowThreshold", "result"}
        /\ outcome.kind = "ExtractionFailed" <=> Succeeded = {}
        /\ outcome.kind = "ExtractionFailed" =>
            /\ Len(outcome.failure_reasons) = Len(attempts)
            /\ \A i \in 1..Len(attempts) :
                /\ outcome.failure_reasons[i][1] = attempts[i].strategy_name
                /\ outcome.failure_reasons[i][2] =
                      (IF attempts[i].reason = <<"">> THEN "unknown error"
                       ELSE attempts[i].reason[1])
        /\ outcome.kind = "QualityBelowThreshold" <=>
            /\ Succeeded # {}
            /\ \A i \in Succeeded : attempts[i].score < minimum_acceptable_score
        /\ outcome.kind = "result" <=>
            \E i \in Succeeded : attempts[i].score >= minimum_acceptable_score
        /\ outcome.kind = "result" =>
              outcome.result.quality_score >= minimum_acceptable_score

\* Every strategy of the default list failed and the error names the five reasons.
C3_Witness ==
    /\ Raised("ExtractionFailed")
    /\ Len(outcome.failure_reasons) = 5
    /\ outcome.failure_reasons[1] =
          <<"x_status_api", "URL is not an X/Twitter status link.">>
    /\ outcome.failure_reasons[5] =
          <<"llm_adaptive", "No valid LLM adaptive rule available.">>

\* C4: a strategy that raises is recorded as a failed attempt and the next strategy
\* of the list is still attempted; run() returns a result whenever some attempt
\* scored at least minimum_acceptable_score, whatever failed before or after it.
C4_FailureNotFatal ==
    /\ \A i \in 1..Len(attempts) :
          (~attempts[i].success /\ i < Len(strategies)) =>
              \/ Len(attempts) > i
              \/ (pc = "loop" /\ idx = i + 1)
    /\ \A i \in 1..Len(attempts) :
          ~attempts[i].success => attempts[i].score = NoScore /\ Len(attempts[i].reason) = 1
    /\ (pc = "done" /\ \E i \in Succeeded : attempts[i].score >= minimum_acceptable_score)
          => outcome.kind = "result"

\* A result returned although strategies failed before and after the winner.
C4_Witness ==
    /\ Returned
    /\ \E i, j, k \in 1..Len(attempts) :
        /\ i < j /\ j < k
        /\ ~attempts[i].success
        /\ attempts[j].success
        /\ outcome.result.idx = j
        /\ ~attempts[k].success

\* C5: for a URL the safety guard rejects, run() raises DisallowedUrl with no
\* status emitted, no strategy invoked, no attempt recorded, no fetch made and the
\* rule store and the rule cache as they were.
C5_UnsafeUrlRejectedFirst ==
    url \in RejectedUrls =>
        /\ Raised("DisallowedUrl")
        /\ statusLog = <<>>
        /\ extractLog = <<>>
        /\ attempts = <<>>
        /\ fetchCalls = 0
        /\ fetched_page = NoPage
        /\ file \in InitFiles
        /\ cache \in InitCaches

C5_Witness ==
    /\ url = MkUrl("http", "127.0.0.1", "/x", {})
    /\ Raised("DisallowedUrl")
    /\ outcome.error = "Localhost URLs are not allowed."

FetchFailures ==
    {i \in 1..Len(attempts) :
        ~attempts[i].success /\ attempts[i].reason = <<FetchFailure.reason>>}

\* C6 as stated: fetch_page is invoked at most once in one orchestration.
C6_AtMostOneFetchCall == fetchCalls <= 1

\* C6, amended: fetch_page returns a page at most once in one orchestration (every
\* call but the one that set context.fetched_page raised, and failed its strategy);
\* a failed fetch is not remembered and is repeated by later strategies.
C6_AtMostOneFetchedPage ==
    fetchCalls = Cardinality(FetchFailures) + (IF fetched_page = NoPage THEN 0 ELSE 1)

\* Two fetches failed, the third returned the page, and a later strategy used it.
C6_Witness ==
    /\ fetchCalls = 3
    /\ fetched_page # NoPage
    /\ Len(attempts) = 5
    /\ Cardinality(FetchFailures) = 2

IsArxivHtmlUrl(u) == _is_arxiv_url(u.host) /\ IsHtmlPath(u.path)

Position(name) ==
    IF \E i \in 1..Len(attempts) : attempts[i].strategy_name = name
    THEN CHOOSE i \in 1..Len(attempts) : attempts[i].strategy_name = name
    ELSE 0

\* C7: with the default strategy list and an arXiv /html/ URL, by the time JSON-LD
\* is attempted the ArXiv HTML strategy has been attempted, after Domain Adapter.
C7_ArxivHtmlInDefaultOrder ==
    (strategies = DefaultStrategies /\ IsArxivHtmlUrl(url) /\ Position("json_ld") # 0) =>
        /\ Position("arxiv_html") # 0
        /\ Position("domain_adapter") < Position("arxiv_html")
        /\ Position("arxiv_html") < Position("json_ld")

Quiescent == \A w \in Workers : wpc[w] = "idle"
Stored == ParseFile(file)
StoredSamples(host) == Get(Stored.replay_samples, host, <<>>)

\* What a completed mutation leaves in the store while nothing removes it.
Reflected(m) ==
    IF m.fn = "save_generated_rule"
    THEN /\ m.host \in DOMAIN Stored.generated_rules
         /\ \E c \in completed :
               c.fn = m.fn /\ c.host = m.host /\ Stored.generated_rules[m.host].id = c.id
    ELSE IF m.fn = "record_replay_sample"
    THEN \/ Len(StoredSamples(m.host)) = REPLAY_MAX_SAMPLES_PER_HOST
         \/ \E i \in 1..Len(StoredSamples(m.host)) :
               StoredSamples(m.host)[i] = MkSample(m.host, m.payload)
    ELSE m.host \in DOMAIN Stored.promoted_adapters

\* C8: once the workers' store calls have all returned, the store reflects every
\* mutation that completed (no lost update), from any initial store including a
\* missing file; and no reader ever parsed a file that was being written.
C8_NoLostUpdate ==
    /\ Quiescent => \A m \in completed : Reflected(m)
    /\ ~partialRead

PromotedAdapters == Stored.promoted_adapters

\* C9: once promoted_adapters[H] exists, no step of any worker's
\* evaluate_and_promote_rule replaces or modifies it.
C9_PromotionWriteOnce ==
    [][\A h \in DOMAIN PromotedAdapters :
          h \in DOMAIN PromotedAdapters' => PromotedAdapters'[h] = PromotedAdapters[h]]_vars

\* The evaluations that saved the adapter now stored for a host.
CreatedBy(host) ==
    {m \in completed :
        /\ m.fn = "save_promoted_adapter"
        /\ m.host = host
        /\ m.id = PromotedAdapters[host].id
        /\ Evaluation(m.samples, m.id) = PromotedAdapters[host].evaluation}

ScoredIn(m) == {i \in 1..Len(m.samples) : ApplyScore(m.id, m.samples[i].payload) # NoScore}
SuccessfulIn(m) ==
    {i \in ScoredIn(m) :
        ApplyScore(m.id, m.samples[i].payload) >= LLM_PROMOTION_MIN_SAMPLE_SCORE}

RECURSIVE SumOver(_, _)
SumOver(m, I) ==
    IF I = {} THEN 0
    ELSE LET i == CHOOSE j \in I : TRUE IN
         ApplyScore(m.id, m.samples[i].payload) + SumOver(m, I \ {i})

RateAndAverageMet(m) ==
    /\ Len(m.samples) > 0
    /\ Cardinality(SuccessfulIn(m)) * 10 >= LLM_PROMOTION_MIN_SUCCESS_RATE * Len(m.samples)
    /\ ScoredIn(m) # {}
    /\ SumOver(m, ScoredIn(m)) >= LLM_PROMOTION_MIN_AVG_SCORE * Cardinality(ScoredIn(m))

HostUrl == MkUrl("https", StoreHost, "/a", {"public"})
HostPages == {MkPage(StoreHost, "/a", p) : p \in {Rich, Fair, OnlyA, Binary}}

LearningInit ==
    /\ acceptance_threshold = MaxScore
    /\ minimum_acceptable_score = 1
    /\ strategies = <<"llm_adaptive">>
    /\ pc = "idle"
    /\ url = HostUrl
    /\ idx = 0
    /\ attempts = <<>>
    /\ best_candidate = NoCandidate
    /\ fetched_page = NoPage
    /\ statusLog = <<>>
    /\ extractLog = <<>>
    /\ fetchCalls = 0
    /\ outcome = NoOutcome
    /\ now = 2
    /\ cancelRequestedAt = NoCancel
    /\ cache = <<>>
    /\ file = AbsentFile
    /\ LLM_PROMOTION_MIN_SAMPLES \in PromotionMinSamples
    /\ LLM_PROMOTION_MAX_SAMPLES = MaxReplaySamples
    /\ LLM_PROMOTION_MIN_SUCCESS_RATE = 8
    /\ LLM_PROMOTION_MIN_AVG_SCORE = 2
    /\ LLM_PROMOTION_MIN_SAMPLE_SCORE = 2
    /\ REPLAY_MAX_SAMPLES_PER_HOST = MaxReplaySamples
    /\ StoreIdle
    /\ cacheThreads = CacheIdle
    /\ validated = NotValidated
    /\ oracleAsked = FALSE
    /\ BuilderIdle

\* LlmAdaptiveStrategy.extract on the page of one more orchestration on the host.
ExtractOnHost ==
    /\ \E page \in HostPages, answer \in OracleAnswers :
        /\ file' = LlmAdaptiveExtract(page, answer).file
        /\ cache' = LlmAdaptiveExtract(page, answer).cache
        /\ oracleAsked' = LlmAdaptiveExtract(page, answer).asked
    /\ UNCHANGED <<orchVars, promoVars, storeVars, builderVars, validated, cacheThreads>>

LearningNext == ExtractOnHost

\* Extractions on the host keep arriving.
LearningSpec == LearningInit /\ [][LearningNext]_vars /\ WF_vars(ExtractOnHost)

LearnedRule == Get(Stored.generated_rules, StoreHost, NoRule)

\* The premise of promotion: a learned rule, no promoted adapter, at least
\* min_samples replay samples, and the rule clearing the thresholds on them.
ReadyForPromotion ==
    /\ LLM_PROMOTION_ENABLED
    /\ LearnedRule # NoRule
    /\ StoreHost \notin DOMAIN PromotedAdapters
    /\ Len(StoredSamples(StoreHost)) >= LLM_PROMOTION_MIN_SAMPLES
    /\ Promoted(Evaluation(SamplesOf(Stored, StoreHost, LLM_PROMOTION_MAX_SAMPLES),
                           LearnedRule.id))

\* C11: if from some extraction on the host has a learned rule, no promoted adapter,
\* enough replay samples and the rule clears the thresholds on them, and this stays
\* so while extractions keep arriving, the rule is eventually promoted.
C11_EventuallyPromoted == (<>[]ReadyForPromotion) => <>(StoreHost \in DOMAIN PromotedAdapters)

\* ------------------------------------------------------------- replay samples
\* One process recording replay samples, call after call, under any configured
\* WEB_EXTRACTION_REPLAY_MAX_SAMPLES that int() accepts from 0 up.
MaxRecords == 4
ReplayHosts == {"example.com", "arxiv.org"}

ReplayInit ==
    /\ acceptance_threshold = MaxScore
    /\ minimum_acceptable_score = 1
    /\ strategies = <<"llm_adaptive">>
    /\ pc = "idle"
    /\ url = NoUrl
    /\ idx = 0
    /\ attempts = <<>>
    /\ best_candidate = NoCandidate
    /\ fetched_page = NoPage
    /\ statusLog = <<>>
    /\ extractLog = <<>>
    /\ fetchCalls = 0
    /\ outcome = NoOutcome
    /\ now = 2
    /\ cancelRequestedAt = NoCancel
    /\ cache = <<>>
    /\ file = AbsentFile
    /\ LLM_PROMOTION_MIN_SAMPLES = 3
    /\ LLM_PROMOTION_MAX_SAMPLES = 6
    /\ LLM_PROMOTION_MIN_SUCCESS_RATE = 8
    /\ LLM_PROMOTION_MIN_AVG_SCORE = 2
    /\ LLM_PROMOTION_MIN_SAMPLE_SCORE = 2
    /\ REPLAY_MAX_SAMPLES_PER_HOST \in 0..MaxReplaySamples
    /\ StoreIdle
    /\ cacheThreads = CacheIdle
    /\ validated = NotValidated
    /\ oracleAsked = FALSE
    /\ BuilderIdle

\* record_replay_sample(host, payload=...)
RecordSample ==
    /\ issued < MaxRecords
    /\ \E h \in ReplayHosts, p \in StorePayloads :
          file' = record_replay_sample(file, h, MkSample(h, p))
    /\ issued' = issued + 1
    /\ UNCHANGED <<orchVars, cache, oracleAsked, promoVars, wpc, wop, wstate, completed, partialRead, builderVars,
                   validated, cacheThreads>>

ReplayNext == RecordSample

ReplaySpec == ReplayInit /\ [][ReplayNext]_vars

\* The newest n of a list, in order: a bounded FIFO of n >= 0 places.
NewestN(seq, n) == SubSeq(seq, Len(seq) - (IF Len(seq) < n THEN Len(seq) ELSE n) + 1, Len(seq))

\* C12: every record_replay_sample call leaves, for the host it names, the newest N
\* samples recorded for that host in recording order (so at most N of them), for
\* the configured bound N, and leaves the lists of the other hosts as they were.
C12_NewestNKept ==
    [][\E h \in ReplayHosts, p \in StorePayloads :
          Stored'.replay_samples =
              Put(Stored.replay_samples, h,
                  NewestN(Append(StoredSamples(h), MkSample(h, p)),
                          REPLAY_MAX_SAMPLES_PER_HOST))]_vars

StoreFailures ==
    {i \in 1..Len(attempts) : ~attempts[i].success /\ attempts[i].reason = <<StoreError>>}

\* C13: while the rule store cannot be read or written, no strategy of the
\* orchestration fails because of it: no attempt carries the store's I/O error.
C13_StoreFailureTolerated == StoreRaises(file) => StoreFailures = {}

\* ------------------------------------------------------------- cancellation
\* The caller of run() asks for the orchestration to be cancelled while the
\* loop is between two strategies.  run(url, task_id, project_id,
\* status_callback) takes no cancellation token and ExtractionContext has no
\* such field, so the request changes nothing that run() reads.
Cancel ==
    /\ pc = "loop"
    /\ cancelRequestedAt = NoCancel
    /\ cancelRequestedAt' = Len(statusLog)
    /\ UNCHANGED <<acceptance_threshold, minimum_acceptable_score, strategies, pc, url, idx,
                   attempts, best_candidate, fetched_page, statusLog, extractLog, fetchCalls,
                   outcome, now, file, cache, oracleAsked, promoVars, storeVars, builderVars, validated, cacheThreads>>

\* Orchestrations with the shipped thresholds on a present or absent store.
CancelInit ==
    /\ acceptance_threshold = MaxScore
    /\ minimum_acceptable_score = 1
    /\ strategies \in {DefaultStrategies} \cup ArxivLists \cup CustomLists
    /\ pc = "idle"
    /\ url = NoUrl
    /\ idx = 0
    /\ attempts = <<>>
    /\ best_candidate = NoCandidate
    /\ fetched_page = NoPage
    /\ statusLog = <<>>
    /\ extractLog = <<>>
    /\ fetchCalls = 0
    /\ outcome = NoOutcome
    /\ now = 2
    /\ cancelRequestedAt = NoCancel
    /\ file = AbsentFile
    /\ cache = <<>>
    /\ LLM_PROMOTION_MIN_SAMPLES = 3
    /\ LLM_PROMOTION_MAX_SAMPLES = 6
    /\ LLM_PROMOTION_MIN_SUCCESS_RATE = 8
    /\ LLM_PROMOTION_MIN_AVG_SCORE = 2
    /\ LLM_PROMOTION_MIN_SAMPLE_SCORE = 2
    /\ REPLAY_MAX_SAMPLES_PER_HOST = MaxReplaySamples
    /\ StoreIdle
    /\ cacheThreads = CacheIdle
    /\ validated = NotValidated
    /\ oracleAsked = FALSE
    /\ BuilderIdle

CancelNext ==
    \/ Run
    \/ XStatusApiStep
    \/ DomainAdapterStep
    \/ ArxivHtmlStep
    \/ JsonLdStep
    \/ HttpReadabilityStep
    \/ LlmAdaptiveStep
    \/ CustomStep
    \/ AfterLoop
    \/ Cancel

CancelSpec == CancelInit /\ [][CancelNext]_vars

\* C14: once the caller has cancelled an orchestration, at most the strategy
\* that was about to run when the request arrived is still started, no later
\* strategy is started, and run() returns no candidate.
C14_CancelStopsAtBoundary ==
    cancelRequestedAt # NoCancel =>
        /\ Len(statusLog) <= cancelRequestedAt + 1
        /\ outcome.kind # "result"

\* ------------------------------------------------------------- result url
\* C15: the "url" of a returned result is the URL that run() was asked for,
\* whichever strategy produced the winning candidate and whatever redirect
\* the fetch followed.
C15_ResultUrlIsRequested ==
    Returned => outcome.result.url = MkLoc(url.host, url.path)

\* ------------------------------------------------------------- builders
\* Texts are atoms, none a part of another, known by their len():
\* "hi" is too short to be an article, "t1" and "t2" are long enough.
Texts == {"", "hi", "t1", "t2"}
TextLen(t) == CASE t = "hi" -> 2 [] t = "t1" -> 150 [] t = "t2" -> 200 [] OTHER -> 0

MIN_CONTENT_CHARS == 120

\* len("\n\n".join(parts))
RECURSIVE JoinedLen(_)
JoinedLen(parts) ==
    IF parts = <<>> THEN 0
    ELSE TextLen(Head(parts)) + (IF Len(parts) > 1 THEN 2 ELSE 0) + JoinedLen(Tail(parts))

NonEmpty(parts) == SelectSeq(parts, LAMBDA t : t # "")

LenSliceTo_Whole(len, n) == len

\* len(s[:n]) for a string s of length len: a negative n counts from the end.
LenSliceTo(len, n) ==
    IF n >= 0
    THEN IF len < n THEN len ELSE n
    ELSE IF len + n > 0 THEN len + n ELSE 0

\* build_reader_blocks, on the chunks between blank lines: the block ids.
build_reader_blocks(chunks) == [i \in 1..Len(chunks) |-> "b" \o ToString(i)]

\* _append_unique_text: the text list after the call.
_append_unique_text(text_blocks, text) ==
    IF text = "" \/ (\E i \in 1..Len(text_blocks) : text_blocks[i] = text)
    THEN text_blocks
    ELSE Append(text_blocks, text)

\* _append_unique_image_block on the builder's blocks and seen_image_urls.
_append_unique_image_block(acc, block_id, image_url) ==
    IF image_url = "" \/ image_url \in acc.seen
    THEN acc
    ELSE [acc EXCEPT !.blocks = Append(@, block_id), !.seen = @ \cup {image_url}]

\* The media items of one atomic entry, each resolved to its image url.
RECURSIVE FxImages(_, _, _)
FxImages(acc, block_id, media) ==
    IF media = <<>> THEN acc
    ELSE FxImages(_append_unique_image_block(acc, block_id \o "-img", Head(media)),
                  block_id, Tail(media))

\* One entry of article.content.blocks, at position at (from 1).
FxEntry(acc, entry, at) ==
    LET block_id == IF entry.key # "" THEN entry.key ELSE "fx-" \o ToString(at)
        texts == _append_unique_text(acc.texts, entry.text)
    IN  IF entry.type = "atomic" THEN FxImages(acc, block_id, entry.media)
        ELSE IF Len(texts) = Len(acc.texts) THEN acc
        ELSE [acc EXCEPT !.texts = texts, !.blocks = Append(@, block_id)]

RECURSIVE FxWalk(_, _, _)
FxWalk(acc, entries, at) ==
    IF at > Len(entries) THEN acc
    ELSE FxWalk(FxEntry(acc, entries[at], at), entries, at + 1)

NoneBuilt == MkBuilt("none", <<>>, 0)

_build_candidate_from_fxtwitter(p) ==
    LET start == [texts |-> <<>>, blocks |-> <<>>, seen |-> {}]
        covered == _append_unique_image_block(start, "fx-cover", p.cover)
        walked == IF p.article THEN FxWalk(covered, p.entries, 1) ELSE start
        previewed == IF p.article /\ walked.texts = <<>>
                     THEN _append_unique_text(walked.texts, p.preview)
                     ELSE walked.texts
        text_blocks == IF previewed = <<>> THEN _append_unique_text(previewed, p.text)
                       ELSE previewed
        raw_len == JoinedLen(text_blocks)
    IN  IF raw_len < MIN_CONTENT_CHARS THEN NoneBuilt
        ELSE MkBuilt("candidate",
                     IF walked.blocks # <<>> THEN walked.blocks
                     ELSE build_reader_blocks(text_blocks),
                     raw_len)

_build_candidate_from_vxtwitter(p) ==
    LET parts == NonEmpty(<<p.title, p.preview, p.text>>)
        raw_len == JoinedLen(parts)
    IN  IF ~p.article
        THEN IF TextLen(p.text) < MIN_CONTENT_CHARS THEN NoneBuilt
             ELSE MkBuilt("candidate", build_reader_blocks(NonEmpty(<<p.text>>)),
                          TextLen(p.text))
        ELSE IF raw_len < MIN_CONTENT_CHARS THEN NoneBuilt
        ELSE MkBuilt("candidate",
                     (IF p.cover # "" THEN <<"vx-cover">> ELSE <<>>)
                         \o build_reader_blocks(parts),
                     raw_len)

\* str.casefold() of a projection: texts that differ only in case fold together.
Casefold(text) ==
    CASE text \in {"Abstract", "ABSTRACT"} -> "abstract"
      [] text = "LONG" -> "long"
      [] OTHER -> text

\* len() of a case-folded projection.
SegmentLen(lowered) ==
    CASE lowered = "abstract" -> 8
      [] lowered = "short" -> 10
      [] lowered = "long" -> 80
      [] lowered = "other" -> 90
      [] lowered = "longer" -> 120
      [] OTHER -> TextLen(lowered)

\* lowered in existing_lowered: "short" is part of "long", "long" of "longer".
Within(lowered, existing_lowered) ==
    \/ lowered = existing_lowered
    \/ <<lowered, existing_lowered>>
           \in {<<"short", "long">>, <<"short", "longer">>, <<"long", "longer">>}

SEGMENT_CONTAINMENT_MIN_CHARS == 64

_append_unique_segment_NoSuperstring(segments, text) ==
    IF text = "" THEN segments
    ELSE IF \E i \in 1..Len(segments) :
                \/ Casefold(text) = Casefold(segments[i])
                \/ /\ SegmentLen(Casefold(text)) >= SEGMENT_CONTAINMENT_MIN_CHARS
                   /\ Within(Casefold(text), Casefold(segments[i]))
         THEN segments
    ELSE Append(segments, text)

\* _append_unique_segment on a projection that _block_to_text has normalized.
_append_unique_segment(segments, text) ==
    IF text = "" THEN segments
    ELSE IF \E i \in 1..Len(segments) :
                \/ Casefold(text) = Casefold(segments[i])
                \/ /\ SegmentLen(Casefold(text)) >= SEGMENT_CONTAINMENT_MIN_CHARS
                   /\ Within(Casefold(text), Casefold(segments[i]))
                \/ /\ SegmentLen(Casefold(segments[i])) >= SEGMENT_CONTAINMENT_MIN_CHARS
                   /\ Within(Casefold(segments[i]), Casefold(text))
         THEN segments
    ELSE Append(segments, text)

\* _append_unique_segment over the texts of the blocks.
RECURSIVE UniqueSegments(_, _)
UniqueSegments(segments, tags) ==
    IF tags = <<>> THEN segments
    ELSE UniqueSegments(_append_unique_segment(segments, Head(tags).text), Tail(tags))

\* extract_arxiv_structured_content: a tag of type "block" yields a block, any
\* other tag yields none; block_index advances with each block appended.  The
\* rstrip() after the cut can only shorten raw_content and is left out.
extract_arxiv_structured_content(p, limit) ==
    LET selected == SelectSeq(p.entries, LAMBDA tag : tag.type = "block")
        raw_len == JoinedLen(UniqueSegments(<<>>, selected))
    IN  MkBuilt("candidate",
                [i \in 1..Len(selected) |-> "arxiv-" \o ToString(i)],
                IF raw_len > limit THEN LenSliceTo(raw_len, limit) ELSE raw_len)

\* The candidate's raw_content[: context.max_chars].
Truncated(c) ==
    IF c.kind = "candidate" THEN [c EXCEPT !.raw_len = LenSliceTo(@, max_chars)] ELSE c

\* The tail of a page strategy: raw_content of the chunks, the 120-character
\* floor, blocks from the raw_content before it is cut.
PageCandidate(p) ==
    LET chunks == NonEmpty([i \in 1..Len(p.entries) |-> p.entries[i].text])
        raw_len == JoinedLen(chunks)
    IN  IF raw_len < MIN_CONTENT_CHARS THEN NoneBuilt
        ELSE Truncated(MkBuilt("candidate", build_reader_blocks(chunks), raw_len))

MaxEntries == 2

SeqsUpTo(S, n) == UNION {[1..k -> S] : k \in 0..n}

MkEntry(key, type, text, media) == [key |-> key, type |-> type, text |-> text, media |-> media]

\* Entries of article.content.blocks as the provider sends them.
FxEntrySet ==
    {MkEntry(k, "atomic", "", m) : k \in {"", "k1", "fx-2"},
                                    m \in {<<>>, <<"u1">>, <<"u1", "u2">>}}
    \cup {MkEntry(k, "unstyled", t, <<>>) : k \in {"", "k1", "fx-2"}, t \in Texts}

FxInputs ==
    {MkInput("fxtwitter", c, es, t, "", "", TRUE) :
        c \in {"", "u1"}, es \in SeqsUpTo(FxEntrySet, MaxEntries), t \in {"", "t2"}}
    \cup {MkInput("fxtwitter", "", <<>>, t, "", "", FALSE) : t \in Texts}

VxInputs ==
    {MkInput("vxtwitter", c, <<>>, t, ti, pr, a) :
        c \in {"", "u1"}, t \in Texts, ti \in {"", "hi"}, pr \in {"", "t1"}, a \in BOOLEAN}

ArxivTags == {MkEntry("", ty, t, <<>>) : ty \in {"block", "skip"}, t \in {"", "t1", "t2"}}
ArxivInputs ==
    {MkInput("arxiv_html", "", es, "", "", "", FALSE) : es \in SeqsUpTo(ArxivTags, MaxEntries)}

PageChunks == {MkEntry("", "chunk", t, <<>>) : t \in {"hi", "t1", "t2"}}
PageStrategies == {"domain_adapter", "json_ld", "http_readability", "llm_adaptive"}
PageInputs ==
    {MkInput(b, "", es, "", "", "", FALSE) :
        b \in PageStrategies, es \in SeqsUpTo(PageChunks, MaxEntries)}

MaxCharsValues == {0 - 5, 0, 100, DefaultMaxChars}

\* XStatusApiStrategy.extract once a provider has answered with payloadIn.
XStatusCandidate ==
    /\ built = NoBuilt
    /\ payloadIn.builder \in {"fxtwitter", "vxtwitter"}
    /\ built' = Truncated(IF payloadIn.builder = "fxtwitter"
                          THEN _build_candidate_from_fxtwitter(payloadIn)
                          ELSE _build_candidate_from_vxtwitter(payloadIn))
    /\ UNCHANGED <<orchVars, file, cache, oracleAsked, promoVars, storeVars, max_chars, payloadIn, validated, cacheThreads>>

\* DomainAdapterStrategy.extract from the selected fragments on.
DomainAdapterCandidate ==
    /\ built = NoBuilt
    /\ payloadIn.builder = "domain_adapter"
    /\ built' = PageCandidate(payloadIn)
    /\ UNCHANGED <<orchVars, file, cache, oracleAsked, promoVars, storeVars, max_chars, payloadIn, validated, cacheThreads>>

\* ArxivHtmlStrategy.extract from extract_arxiv_structured_content on.
ArxivHtmlCandidate ==
    /\ built = NoBuilt
    /\ payloadIn.builder = "arxiv_html"
    /\ built' =
         LET structured_content == extract_arxiv_structured_content(payloadIn, max_chars)
             chunks == UniqueSegments(<<>>, SelectSeq(payloadIn.entries,
                                                      LAMBDA tag : tag.type = "block"))
         IN  IF structured_content.raw_len < MIN_CONTENT_CHARS THEN NoneBuilt
             ELSE Truncated([structured_content EXCEPT
                    !.blocks = IF @ # <<>> THEN @ ELSE build_reader_blocks(chunks)])
    /\ UNCHANGED <<orchVars, file, cache, oracleAsked, promoVars, storeVars, max_chars, payloadIn, validated, cacheThreads>>

\* JsonLdStrategy.extract from best_text on.
JsonLdCandidate ==
    /\ built = NoBuilt
    /\ payloadIn.builder = "json_ld"
    /\ built' = PageCandidate(payloadIn)
    /\ UNCHANGED <<orchVars, file, cache, oracleAsked, promoVars, storeVars, max_chars, payloadIn, validated, cacheThreads>>

\* HttpReadabilityStrategy.extract from raw_content on.
HttpReadabilityCandidate ==
    /\ built = NoBuilt
    /\ payloadIn.builder = "http_readability"
    /\ built' = PageCandidate(payloadIn)
    /\ UNCHANGED <<orchVars, file, cache, oracleAsked, promoVars, storeVars, max_chars, payloadIn, validated, cacheThreads>>

\* llm_adaptive.apply_rule from the normalized raw_content on.
apply_rule ==
    /\ built = NoBuilt
    /\ payloadIn.builder = "llm_adaptive"
    /\ built' = PageCandidate(payloadIn)
    /\ UNCHANGED <<orchVars, file, cache, oracleAsked, promoVars, storeVars, max_chars, payloadIn, validated, cacheThreads>>

BuilderInit ==
    /\ acceptance_threshold = MaxScore
    /\ minimum_acceptable_score = 1
    /\ strategies = DefaultStrategies
    /\ pc = "idle"
    /\ url = NoUrl
    /\ idx = 0
    /\ attempts = <<>>
    /\ best_candidate = NoCandidate
    /\ fetched_page = NoPage
    /\ statusLog = <<>>
    /\ extractLog = <<>>
    /\ fetchCalls = 0
    /\ outcome = NoOutcome
    /\ now = 2
    /\ cancelRequestedAt = NoCancel
    /\ file = AbsentFile
    /\ cache = <<>>
    /\ LLM_PROMOTION_MIN_SAMPLES = 3
    /\ LLM_PROMOTION_MAX_SAMPLES = 6
    /\ LLM_PROMOTION_MIN_SUCCESS_RATE = 8
    /\ LLM_PROMOTION_MIN_AVG_SCORE = 2
    /\ LLM_PROMOTION_MIN_SAMPLE_SCORE = 2
    /\ REPLAY_MAX_SAMPLES_PER_HOST = MaxReplaySamples
    /\ StoreIdle
    /\ cacheThreads = CacheIdle
    /\ validated = NotValidated
    /\ oracleAsked = FALSE
    /\ max_chars \in MaxCharsValues
    /\ payloadIn \in FxInputs \cup VxInputs \cup ArxivInputs \cup PageInputs
    /\ built = NoBuilt

BuilderNext ==
    \/ XStatusCandidate
    \/ DomainAdapterCandidate
    \/ ArxivHtmlCandidate
    \/ JsonLdCandidate
    \/ HttpReadabilityCandidate
    \/ apply_rule

BuilderSpec == BuilderInit /\ [][BuilderNext]_vars

\* C16: in every candidate a built-in strategy or builder produces, the ids
\* of the blocks are pairwise distinct.
C16_BlockIdsDistinct ==
    built.kind = "candidate" =>
        \A i, j \in DOMAIN built.blocks : i # j => built.blocks[i] # built.blocks[j]

\* C17: with a max_chars that is not negative, every candidate a built-in
\* strategy returns has len(raw_content) <= max_chars.
C17_RawContentWithinMaxChars ==
    (built.kind = "candidate" /\ max_chars >= 0) => built.raw_len <= max_chars

\* A candidate whose content was longer than max_chars and was cut to it.
C17_Witness ==
    /\ built.kind = "candidate"
    /\ max_chars = 100
    /\ built.raw_len = max_chars

\* C17 as stated, for any max_chars: len(raw_content) <= max_chars.
C17_RawContentWithinAnyMaxChars ==
    built.kind = "candidate" => built.raw_len <= max_chars

\* ------------------------------------------------------------- adapter lookup
\* Hosts that get_adapter_for_host is asked about.
AdapterHosts ==
    {"example.com", "sub.example.com", "medium.com", "blog.medium.com", "notmedium.com",
     "arxiv.org", "other.net"}

\* A promoted adapter as stored: with container_regexes (those of rule id), or
\* with an empty container_regexes list (id "").
StoredAdapter(h, id) ==
    MkAdapter(h, id, 0, [sample_count |-> 3, successful |-> 3, errors |-> 0,
                         score_sum |-> 3 * MaxScore])

\* Stores holding promoted adapters for medium.com and blog.medium.com, each
\* absent, without container patterns, or with them.
AdapterFiles ==
    {JsonFile([_default_state EXCEPT !.promoted_adapters =
        [k \in keys |-> StoredAdapter(k, IF k \in bare THEN ""
                                         ELSE IF k = "medium.com" THEN "ruleB" ELSE "ruleA")]]) :
        keys \in SUBSET {"medium.com", "blog.medium.com"},
        bare \in SUBSET {"medium.com", "blog.medium.com"}}

AdapterInit ==
    /\ acceptance_threshold = MaxScore
    /\ minimum_acceptable_score = 1
    /\ strategies = <<"llm_adaptive">>
    /\ pc = "idle"
    /\ url = HostUrl
    /\ idx = 0
    /\ attempts = <<>>
    /\ best_candidate = NoCandidate
    /\ fetched_page = NoPage
    /\ statusLog = <<>>
    /\ extractLog = <<>>
    /\ fetchCalls = 0
    /\ outcome = NoOutcome
    /\ now = 2
    /\ cancelRequestedAt = NoCancel
    /\ cache = <<>>
    /\ file \in AdapterFiles
    /\ LLM_PROMOTION_MIN_SAMPLES = 1
    /\ LLM_PROMOTION_MAX_SAMPLES = MaxReplaySamples
    /\ LLM_PROMOTION_MIN_SUCCESS_RATE = 8
    /\ LLM_PROMOTION_MIN_AVG_SCORE = 2
    /\ LLM_PROMOTION_MIN_SAMPLE_SCORE = 2
    /\ REPLAY_MAX_SAMPLES_PER_HOST = MaxReplaySamples
    /\ StoreIdle
    /\ cacheThreads = CacheIdle
    /\ validated = NotValidated
    /\ oracleAsked = FALSE
    /\ BuilderIdle

AdapterNext == ExtractOnHost

AdapterSpec == AdapterInit /\ [][AdapterNext]_vars

\* The promoted-adapter keys that equal host or are a dot-suffix of it.
MatchingKeys(host) ==
    {k \in DOMAIN PromotedAdapters : k = host \/ EndsWithDot(host, k)}

WithPatterns(keys) == {k \in keys : PromotedAdapters[k].id # ""}

SafetyHosts ==
    {"", "localhost", "127.0.0.1", "::1", "10.0.0.5", "198.18.0.1", "8.8.8.8",
     "example.com", "medium.com"}
LiteralHosts == {"127.0.0.1", "::1", "10.0.0.5", "198.18.0.1", "8.8.8.8"}
Resolutions == {{"gaierror"}} \cup SUBSET {"public", "private", "allowlisted"}
SafetyUrls ==
    {MkUrl(s, h, "/post", d) :
        s \in {"http", "https", "ftp"}, h \in SafetyHosts \ LiteralHosts, d \in Resolutions}
    \cup {MkUrl(s, h, "/post", {}) : s \in {"http", "https", "ftp"}, h \in LiteralHosts}

SafetyInit ==
    /\ acceptance_threshold = MaxScore
    /\ minimum_acceptable_score = 1
    /\ strategies = DefaultStrategies
    /\ pc = "idle"
    /\ url \in SafetyUrls
    /\ idx = 0
    /\ attempts = <<>>
    /\ best_candidate = NoCandidate
    /\ fetched_page = NoPage
    /\ statusLog = <<>>
    /\ extractLog = <<>>
    /\ fetchCalls = 0
    /\ outcome = NoOutcome
    /\ now = 2
    /\ cancelRequestedAt = NoCancel
    /\ file = AbsentFile
    /\ cache = <<>>
    /\ LLM_PROMOTION_MIN_SAMPLES = 3
    /\ LLM_PROMOTION_MAX_SAMPLES = 6
    /\ LLM_PROMOTION_MIN_SUCCESS_RATE = 8
    /\ LLM_PROMOTION_MIN_AVG_SCORE = 2
    /\ LLM_PROMOTION_MIN_SAMPLE_SCORE = 2
    /\ REPLAY_MAX_SAMPLES_PER_HOST = MaxReplaySamples
    /\ StoreIdle
    /\ cacheThreads = CacheIdle
    /\ validated = NotValidated
    /\ oracleAsked = FALSE
    /\ BuilderIdle

\* The jobs worker validates url (web_extract/safety.py).
ValidateInJobs ==
    /\ validated.jobs = ""
    /\ validated' = [validated EXCEPT !.jobs = validate_public_http_url(url)]
    /\ UNCHANGED <<orchVars, file, cache, oracleAsked, promoVars, storeVars, builderVars, cacheThreads>>

\* The server validates url (app/helpers/url_safety.py).
ValidateInServer ==
    /\ validated.server = ""
    /\ validated' = [validated EXCEPT !.server = url_safety_validate_public_http_url(url)]
    /\ UNCHANGED <<orchVars, file, cache, oracleAsked, promoVars, storeVars, builderVars, cacheThreads>>

SafetyNext ==
    \/ ValidateInJobs
    \/ ValidateInServer

SafetySpec == SafetyInit /\ [][SafetyNext]_vars

\* What the claim asks of an accepted URL.
PubliclyReachable(u) ==
    /\ u.scheme \in {"http", "https"}
    /\ u.host \notin {"localhost", "127.0.0.1", "::1"}
    /\ u.host \notin {"10.0.0.5", "198.18.0.1"}
    /\ u.host \notin LiteralHosts =>
          /\ u.dns # {}
          /\ u.dns \subseteq {"public", "allowlisted"}

\* C19: either copy of validate_public_http_url accepts a URL only if its
\* scheme is http or https, its host is not localhost, 127.0.0.1 or ::1 and not
\* a literal non-public IP, and the host resolves, to at least one address,
\* every one public or inside an allow-listed CIDR.
C19_AcceptsOnlyPublicUrls ==
    /\ validated.jobs = "ok" => PubliclyReachable(url)
    /\ validated.server = "ok" => PubliclyReachable(url)

\* Both copies accepted a host that resolves to a public and an allow-listed
\* address.
C19_Witness ==
    /\ validated = [jobs |-> "ok", server |-> "ok"]
    /\ url.dns = {"public", "allowlisted"}

\* ------------------------------------------------------------- cached rule that fails
\* The rule get_cached_rule answers for the page's host once the replay
\* sample of the page is recorded.
CachedRuleFor(page) ==
    get_cached_rule(cache, record_replay_sample(file, page.final_host,
                                                MkSample(page.final_host, page.payload)),
                    page.final_host, now).rule

\* A cached rule exists for the page's host and apply_rule raises on the page.
CachedRuleFails(page) ==
    /\ page.fetched
    /\ page.final_host # ""
    /\ page.payload.text # ""
    /\ ~StoreRaises(file)
    /\ CachedRuleFor(page) # NoRule
    /\ ApplyScore(CachedRuleFor(page).id, page.payload) = NoScore

\* C20: when LLM Adaptive finds a cached rule for the host and applying it to
\* the page fails, the extraction goes on to ask the oracle for a new rule.
C20_FallsThroughToOracle ==
    [][(AtStrategy("llm_adaptive") /\ LLM_ADAPTER_ENABLED /\ CachedRuleFails(fetched_page'))
          => oracleAsked']_vars

\* ------------------------------------------------- llm_adaptive.py, _RULE_CACHE under threads
\* _cache_get and _cache_put hold no lock: a thread switch can fall between any
\* two of their statements.  Each action below is one statement of one thread.
MaxCacheCalls == 2

CacheHosts == {"example.com", "arxiv.org", "medium.com"}

CacheKeys(c) == {c[i].host : i \in 1..Len(c)}

CacheThreadAt(t, at) == cacheThreads[t].pc = at

CacheReturn(t, error, lost) ==
    [cacheThreads EXCEPT ![t] = MkCacheThread("idle", "", NoRule, {}, "", error, lost,
                                              cacheThreads[t].calls + 1)]

CacheOthersUnchanged ==
    UNCHANGED <<orchVars, file, oracleAsked, promoVars, storeVars, builderVars, validated>>

\* A caller enters _cache_get(host).
CacheGetCall(t, host) ==
    /\ CacheThreadAt(t, "idle")
    /\ cacheThreads[t].calls < MaxCacheCalls
    /\ cacheThreads' = [cacheThreads EXCEPT ![t].pc = "get_read", ![t].host = host,
                                            ![t].error = "", ![t].lost = FALSE]
    /\ UNCHANGED cache
    /\ CacheOthersUnchanged

\* rule = _RULE_CACHE.get(host); return None for no rule, the rule when it is
\* not expired; otherwise go on to the pop.
CacheGetRead(t) ==
    /\ CacheThreadAt(t, "get_read")
    /\ LET i == CacheIndex(cache, cacheThreads[t].host) IN
       cacheThreads' =
           IF i = 0 THEN CacheReturn(t, "", FALSE)
           ELSE IF Expired(cache[i], now)
                THEN [cacheThreads EXCEPT ![t].pc = "get_pop", ![t].rule = cache[i]]
                ELSE CacheReturn(t, "", FALSE)
    /\ UNCHANGED cache
    /\ CacheOthersUnchanged

\* _RULE_CACHE.pop(host, None): removes whatever rule the host has by now.
\* lost records that the rule removed is not the expired one that was read.
CacheGetPop(t) ==
    /\ CacheThreadAt(t, "get_pop")
    /\ LET i == CacheIndex(cache, cacheThreads[t].host) IN
       /\ cache' = IF i = 0 THEN cache ELSE Remove(cache, i)
       /\ cacheThreads' = CacheReturn(t, "", i # 0 /\ cache[i] # cacheThreads[t].rule)
    /\ CacheOthersUnchanged

\* A caller enters _cache_put(rule).
CachePutCall(t, rule) ==
    /\ CacheThreadAt(t, "idle")
    /\ cacheThreads[t].calls < MaxCacheCalls
    /\ cacheThreads' = [cacheThreads EXCEPT ![t].pc = "put_store", ![t].host = rule.host,
                                            ![t].rule = rule, ![t].error = "",
                                            ![t].lost = FALSE]
    /\ UNCHANGED cache
    /\ CacheOthersUnchanged

\* _RULE_CACHE[rule.host] = rule
CachePutStore(t) ==
    /\ CacheThreadAt(t, "put_store")
    /\ LET rule == cacheThreads[t].rule
           i == CacheIndex(cache, rule.host) IN
       cache' = IF i = 0 THEN Append(cache, rule) ELSE [cache EXCEPT ![i] = rule]
    /\ cacheThreads' = [cacheThreads EXCEPT ![t].pc = "put_len"]
    /\ CacheOthersUnchanged

\* if len(_RULE_CACHE) <= LLM_ADAPTER_CACHE_SIZE: return
CachePutLen(t) ==
    /\ CacheThreadAt(t, "put_len")
    /\ cacheThreads' = IF Len(cache) <= LLM_ADAPTER_CACHE_SIZE
                       THEN CacheReturn(t, "", FALSE)
                       ELSE [cacheThreads EXCEPT ![t].pc = "put_min",
                                                 ![t].keys = CacheKeys(cache)]
    /\ UNCHANGED cache
    /\ CacheOthersUnchanged

\* oldest_key = min(_RULE_CACHE.keys(), key=lambda key: _RULE_CACHE[key].generated_at):
\* the iteration began on the keys seen at put_len; when another thread has
\* added or removed a key since, the iteration raises RuntimeError (dictionary
\* changed size during iteration) or the lambda raises KeyError, and _cache_put
\* ends without evicting.
CachePutMin(t) ==
    /\ CacheThreadAt(t, "put_min")
    /\ cacheThreads' =
           IF CacheKeys(cache) # cacheThreads[t].keys
           THEN CacheReturn(t, "RuntimeError", FALSE)
           ELSE [cacheThreads EXCEPT ![t].pc = "put_pop",
                                     ![t].oldest_key = cache[OldestIndex(cache)].host]
    /\ UNCHANGED cache
    /\ CacheOthersUnchanged

\* _RULE_CACHE.pop(oldest_key, None)
CachePutPop(t) ==
    /\ CacheThreadAt(t, "put_pop")
    /\ LET i == CacheIndex(cache, cacheThreads[t].oldest_key) IN
       cache' = IF i = 0 THEN cache ELSE Remove(cache, i)
    /\ cacheThreads' = CacheReturn(t, "", FALSE)
    /\ CacheOthersUnchanged

\* The orchestrator at rest and the promotion settings of the defaults: the
\* state of everything a specification of one module does not touch.
OrchestratorIdle ==
    /\ acceptance_threshold = MaxScore
    /\ minimum_acceptable_score = 1
    /\ strategies = <<>>
    /\ pc = "idle"
    /\ url = ""
    /\ idx = 1
    /\ attempts = <<>>
    /\ best_candidate = NoCandidate
    /\ fetched_page = NoPage
    /\ statusLog = <<>>
    /\ extractLog = <<>>
    /\ fetchCalls = 0
    /\ outcome = NoOutcome
    /\ cancelRequestedAt = NoCancel
    /\ oracleAsked = FALSE
    /\ validated = NotValidated
    /\ LLM_PROMOTION_MIN_SAMPLES = 1
    /\ LLM_PROMOTION_MAX_SAMPLES = MaxReplaySamples
    /\ LLM_PROMOTION_MIN_SUCCESS_RATE = 8
    /\ LLM_PROMOTION_MIN_AVG_SCORE = 2
    /\ LLM_PROMOTION_MIN_SAMPLE_SCORE = 2
    /\ REPLAY_MAX_SAMPLES_PER_HOST = MaxReplaySamples

CacheInit ==
    /\ OrchestratorIdle
    /\ now = LLM_ADAPTER_CACHE_TTL_SECONDS + 1
    /\ file = EmptyFile
    /\ cache \in {<<>>, <<MkRule("example.com", "ruleA", 0)>>}
    /\ StoreIdle
    /\ cacheThreads = CacheIdle
    /\ BuilderIdle

CacheNext ==
    \E t \in CacheThreadIds :
        \/ \E host \in CacheHosts : CacheGetCall(t, host)
        \/ CacheGetRead(t)
        \/ CacheGetPop(t)
        \/ \E host \in CacheHosts : CachePutCall(t, MkRule(host, "ruleB", now))
        \/ CachePutStore(t)
        \/ CachePutLen(t)
        \/ CachePutMin(t)
        \/ CachePutPop(t)

CacheSpec == CacheInit /\ [][CacheNext]_vars

\* C21: no interleaving of concurrent _cache_get and _cache_put calls raises an
\* error, removes a rule that a _cache_put just inserted by anything but an
\* eviction, or leaves the cache above its capacity once the calls have returned.
C21_CacheSafeUnderThreads ==
    /\ \A t \in CacheThreadIds : cacheThreads[t].error = "" /\ ~cacheThreads[t].lost
    /\ (\A t \in CacheThreadIds : CacheThreadAt(t, "idle"))
           => Len(cache) <= LLM_ADAPTER_CACHE_SIZE

\* ------------------------------------------------- llm_adaptive.py, the oracle's answer
\* Confidence is counted in hundredths: 45 is 0.45, 100 is 1.0.
LLM_ADAPTER_MIN_CONFIDENCE == 45
ContainerRegexLimit == 5
DropPatternLimit == 10

\* The text of the oracle's response: unparsable, or a JSON object with its
\* container_regexes and drop_text_patterns (strings, some of them blank) and
\* its confidence.
MkParsed(json, container_regexes, drop_text_patterns, confidence) ==
    [json |-> json, container_regexes |-> container_regexes,
     drop_text_patterns |-> drop_text_patterns, confidence |-> confidence]

Repeat(x, n) == [i \in 1..n |-> x]

ContainerLists ==
    {Repeat("<article>", n) : n \in 0..(ContainerRegexLimit + 1)}
    \cup {<<" ">>, <<"", "<main>">>, <<"<main>", " ", "<article>">>}

DropLists ==
    {Repeat("^Share", n) : n \in {0, 1, DropPatternLimit, DropPatternLimit + 1}}
    \cup {<<" ", "^Share">>}

Confidences == {0, LLM_ADAPTER_MIN_CONFIDENCE - 1, LLM_ADAPTER_MIN_CONFIDENCE, 100, 150}

ParsedAnswers ==
    {MkParsed(FALSE, <<>>, <<>>, 0)}
    \cup {MkParsed(TRUE, cs, ds, c) : cs \in ContainerLists, ds \in DropLists, c \in Confidences}

\* pattern.strip() for pattern in ... if isinstance(pattern, str) and pattern.strip()
Stripped(patterns) == SelectSeq(patterns, LAMBDA pattern : pattern \notin {"", " "})

\* seq[:n]
FirstN(seq, n) == SubSeq(seq, 1, IF Len(seq) < n THEN Len(seq) ELSE n)

\* The container_regexes, drop_text_patterns and confidence that synthesize_rule
\* takes from the parsed answer.
RuleFields(parsed) ==
    [container_regexes |-> FirstN(Stripped(parsed.container_regexes), ContainerRegexLimit),
     drop_text_patterns |-> FirstN(Stripped(parsed.drop_text_patterns), DropPatternLimit),
     confidence |-> parsed.confidence]

\* How synthesize_rule ends on the answer: _extract_json_block raises, no
\* container regex is left, the confidence is below the minimum, or a rule is made.
AnswerKind(parsed) ==
    IF ~parsed.json THEN "error"
    ELSE IF RuleFields(parsed).container_regexes = <<>> THEN "no_containers"
    ELSE IF parsed.confidence < LLM_ADAPTER_MIN_CONFIDENCE THEN "low_confidence"
    ELSE "rule"

NoFields == [container_regexes |-> <<>>, drop_text_patterns |-> <<>>, confidence |-> 0]

\* synthesize_rule(host, url, payload) of a process whose oracle gives the answer
\* payloadIn; built keeps the fields of the rule returned.
Synthesize(host, id) ==
    /\ built = NoBuilt
    /\ LET kind == AnswerKind(payloadIn)
           out == synthesize_rule(cache, file, host, Rich, MkAnswer(kind, id), now) IN
       /\ cache' = out.cache
       /\ file' = out.file
       /\ oracleAsked' = out.asked
       /\ built' = IF out.rule = NoRule
                   THEN MkBuilt("none", NoFields, 0)
                   ELSE MkBuilt("rule", IF out.asked THEN RuleFields(payloadIn) ELSE NoFields,
                                out.rule.generated_at)
    /\ UNCHANGED <<orchVars, promoVars, storeVars, max_chars, payloadIn, validated, cacheThreads>>

SynthInit ==
    /\ OrchestratorIdle
    /\ now = LLM_ADAPTER_CACHE_TTL_SECONDS + 1
    /\ file \in {AbsentFile, EmptyFile,
                 save_generated_rule(EmptyFile, "arxiv.org", MkRule("arxiv.org", "ruleB", 0))}
    /\ cache \in {<<>>, <<MkRule("arxiv.org", "ruleB", now)>>}
    /\ StoreIdle
    /\ cacheThreads = CacheIdle
    /\ max_chars = DefaultMaxChars
    /\ payloadIn \in ParsedAnswers
    /\ built = NoBuilt

SynthNext == \E host \in {"example.com", "arxiv.org"}, id \in {"ruleA"} : Synthesize(host, id)

SynthSpec == SynthInit /\ [][SynthNext]_vars

\* The answer keeps the schema the oracle is asked for.
AnswerInSchema(parsed) ==
    /\ parsed.json
    /\ Len(Stripped(parsed.container_regexes)) \in 1..ContainerRegexLimit
    /\ Len(Stripped(parsed.drop_text_patterns)) <= DropPatternLimit
    /\ parsed.confidence >= LLM_ADAPTER_MIN_CONFIDENCE
    /\ parsed.confidence <= 100

\* C22: synthesize_rule writes a rule to the memory cache and the rule store only
\* when the oracle's answer has 1 to 5 non-empty container regexes, at most 10
\* drop patterns and a confidence from the minimum up to 1; on any other answer
\* it returns no rule and leaves the memory cache and the stored state as they were.
C22_WritesOnlyAnswersInSchema ==
    [][(oracleAsked' /\ ~AnswerInSchema(payloadIn))
          => /\ built'.kind = "none"
             /\ cache' = cache
             /\ read_state(file') = read_state(file)]_vars

\* ------------------------------------------------- llm_adaptive.py, expiry of cached rules
MaxNow == 3

ExpiryHosts == {"example.com", "arxiv.org"}

ExpiryRules(t) == {MkRule(h, id, at) : h \in ExpiryHosts, id \in RuleIds, at \in 0..t}

\* get_cached_rule(host) of a process; built keeps the rule it returned.
GetCachedRule(host) ==
    /\ built = NoBuilt
    /\ LET got == get_cached_rule(cache, file, host, now) IN
       /\ cache' = got.cache
       /\ file' = got.file
       /\ built' = MkBuilt("get_cached_rule",
                           IF got.rule = NoRule THEN <<>> ELSE <<got.rule>>, 0)
    /\ UNCHANGED <<orchVars, oracleAsked, promoVars, storeVars, max_chars, payloadIn,
                   validated, cacheThreads>>

ExpiryInit ==
    /\ OrchestratorIdle
    /\ now \in 0..MaxNow
    /\ cache \in {<<>>} \cup {<<rule>> : rule \in ExpiryRules(now)}
    /\ file \in {EmptyFile}
                \cup {save_generated_rule(EmptyFile, rule.host, rule) : rule \in ExpiryRules(now)}
    /\ StoreIdle
    /\ cacheThreads = CacheIdle
    /\ BuilderIdle

ExpiryNext == \E host \in ExpiryHosts : GetCachedRule(host)

ExpirySpec == ExpiryInit /\ [][ExpiryNext]_vars

\* C23: get_cached_rule never returns a rule whose age now - generated_at is
\* over the cache TTL, whether the rule came from memory or from the rule store.
C23_ExpiredRuleNeverReturned ==
    built.kind = "get_cached_rule"
        => \A i \in 1..Len(built.blocks) : ~Expired(built.blocks[i], now)

\* ------------------------------------------------- strategies.py, the sample of an extraction
IsSuffix(tail, seq) ==
    Len(tail) <= Len(seq) /\ tail = SubSeq(seq, Len(seq) - Len(tail) + 1, Len(seq))

\* The samples of the host after the step are the samples before it with the
\* sample of this page appended once, less the oldest ones the cap dropped.
SampleRecorded(f, g, page) ==
    LET host == page.final_host
        after == get_replay_samples(g, host, 0)
    IN  /\ after # <<>>
        /\ IsSuffix(after, Append(get_replay_samples(f, host, 0), MkSample(host, page.payload)))

MkNode(articleBody, text, description, values) ==
    [articleBody |-> articleBody, text |-> text, description |-> description,
     values |-> values]

FlatNodes == {MkNode(a, t, d, <<>>) : a \in Texts, t \in Texts, d \in Texts}

JsonLdObjects ==
    FlatNodes
    \cup {MkNode("", "", d, <<child>>) :
             d \in {"", "t1"},
             child \in {MkNode(a, "", dd, <<>>) : a \in {"", "t2"}, dd \in {"hi", "t1", "t2"}}}

MaxJsonLdObjects == 2

JsonLdPages == UNION {[1..n -> JsonLdObjects] : n \in 0..MaxJsonLdObjects}

RECURSIVE _find_long_text_field(_)
RECURSIVE FirstNested(_)

\* for value in node.values(): nested = _find_long_text_field(value); if nested: return
FirstNested(values) ==
    IF values = <<>> THEN ""
    ELSE IF _find_long_text_field(Head(values)) # ""
         THEN _find_long_text_field(Head(values))
    ELSE FirstNested(Tail(values))

\* _find_long_text_field: "" models None.
_find_long_text_field(node) ==
    IF TextLen(node.articleBody) >= MIN_CONTENT_CHARS THEN node.articleBody
    ELSE IF TextLen(node.text) >= MIN_CONTENT_CHARS THEN node.text
    ELSE IF TextLen(node.description) >= MIN_CONTENT_CHARS THEN node.description
    ELSE FirstNested(node.values)

RECURSIVE BestText(_, _)
\* The loop of JsonLdStrategy.extract over json_candidates.
BestText(json_candidates, best_text) ==
    IF json_candidates = <<>> THEN best_text
    ELSE LET text == _find_long_text_field(Head(json_candidates)) IN
         BestText(Tail(json_candidates),
                  IF text # "" /\ (best_text = "" \/ TextLen(text) > TextLen(best_text))
                  THEN text ELSE best_text)

\* JsonLdStrategy.extract on the decoded objects of a page.
JsonLdExtractText ==
    /\ built = NoBuilt
    /\ LET best_text == BestText(payloadIn, "") IN
       built' = IF payloadIn = <<>> THEN MkBuilt("No JSON-LD payload found.", <<>>, 0)
                ELSE IF best_text = ""
                     THEN MkBuilt("JSON-LD did not contain a usable article body.", <<>>, 0)
                ELSE IF TextLen(best_text) < MIN_CONTENT_CHARS
                     THEN MkBuilt("JSON-LD content too short.", <<>>, 0)
                ELSE MkBuilt("json_ld", <<best_text>>, TextLen(best_text))
    /\ UNCHANGED <<orchVars, file, cache, oracleAsked, promoVars, storeVars, max_chars,
                   payloadIn, validated, cacheThreads>>

JsonLdInit ==
    /\ OrchestratorIdle
    /\ now = 0
    /\ file = EmptyFile
    /\ cache = <<>>
    /\ StoreIdle
    /\ cacheThreads = CacheIdle
    /\ max_chars = DefaultMaxChars
    /\ payloadIn \in JsonLdPages
    /\ built = NoBuilt

JsonLdNext == JsonLdExtractText

JsonLdSpec == JsonLdInit /\ [][JsonLdNext]_vars

RECURSIVE NodeValues(_)
RECURSIVE SeqValues(_)
\* Every articleBody, text and description value of the objects, nested ones included.
SeqValues(nodes) ==
    IF nodes = <<>> THEN {} ELSE NodeValues(Head(nodes)) \cup SeqValues(Tail(nodes))

NodeValues(node) ==
    {node.articleBody, node.text, node.description} \cup SeqValues(node.values)

\* C25: the content of the JSON-LD strategy is a longest string among all the
\* articleBody, text and description values of all JSON-LD objects of the page,
\* whenever one of them reaches the 120-char minimum.
C25_LongestTextChosen ==
    (built # NoBuilt /\ \E v \in SeqValues(payloadIn) : TextLen(v) >= MIN_CONTENT_CHARS)
        => /\ built.kind = "json_ld"
           /\ \A v \in SeqValues(payloadIn) : TextLen(v) <= built.raw_len

\* ------------------------------------------------- arxiv_html_blocks.py, the text projection
MaxBlocks == 3

ProjectionTexts == {"", "Abstract", "ABSTRACT", "short", "long", "LONG", "longer", "other"}

\* blocks, each given by its _block_to_text ("" for a block without text).
BlockLists == UNION {[1..n -> ProjectionTexts] : n \in 0..MaxBlocks}

\* The projection loop of extract_arxiv_structured_content: text_segments of blocks.
ProjectBlocks ==
    /\ built = NoBuilt
    /\ built' = [kind |-> "projection",
                 blocks |-> payloadIn,
                 text_segments |-> UniqueSegments(<<>>, [i \in 1..Len(payloadIn) |->
                                                          [text |-> payloadIn[i]]]),
                 raw_len |-> 0]
    /\ UNCHANGED <<orchVars, file, cache, oracleAsked, promoVars, storeVars, max_chars,
                   payloadIn, validated, cacheThreads>>

ProjectionInit ==
    /\ OrchestratorIdle
    /\ now = 0
    /\ file = EmptyFile
    /\ cache = <<>>
    /\ StoreIdle
    /\ cacheThreads = CacheIdle
    /\ max_chars = DefaultMaxChars
    /\ payloadIn \in BlockLists
    /\ built = NoBuilt

ProjectionNext == ProjectBlocks

ProjectionSpec == ProjectionInit /\ [][ProjectionNext]_vars

\* The texts of the blocks with an index in kept, in block order.
KeptTexts(blocks, kept) ==
    LET at == SelectSeq([i \in 1..Len(blocks) |-> i], LAMBDA i : i \in kept) IN
    [k \in 1..Len(at) |-> blocks[at[k]]]

Duplicates(text, prior) == Casefold(text) = Casefold(prior)

ContainedIn(text, prior) ==
    /\ SegmentLen(Casefold(text)) >= SEGMENT_CONTAINMENT_MIN_CHARS
    /\ Within(Casefold(text), Casefold(prior))

\* C26 (as stated): the segments are the projections of the kept blocks in block
\* order, where a block with text is skipped exactly when its projection
\* duplicates (case-folded) a previously kept segment or has at least 64 chars
\* and is contained in one; the blocks are all still there.
C26_SkippedIffDuplicateOrContained ==
    built.kind = "projection"
        => /\ built.blocks = payloadIn
           /\ \E kept \in SUBSET (1..Len(payloadIn)) :
                /\ built.text_segments = KeptTexts(payloadIn, kept)
                /\ \A i \in 1..Len(payloadIn) :
                     i \in kept <=>
                        /\ payloadIn[i] # ""
                        /\ ~\E j \in kept :
                              /\ j < i
                              /\ \/ Duplicates(payloadIn[i], payloadIn[j])
                                 \/ ContainedIn(payloadIn[i], payloadIn[j])

\* C26: the segments are the projections of the kept blocks in block order,
\* where a block with text is skipped exactly when its projection duplicates
\* (case-folded) a previously kept segment, has at least 64 chars and is
\* contained in one, or contains one of at least 64 chars; the blocks are all
\* still there.
C26_SkippedIffDuplicateOrOverlapping ==
    built.kind = "projection"
        => /\ built.blocks = payloadIn
           /\ \E kept \in SUBSET (1..Len(payloadIn)) :
                /\ built.text_segments = KeptTexts(payloadIn, kept)
                /\ \A i \in 1..Len(payloadIn) :
                     i \in kept <=>
                        /\ payloadIn[i] # ""
                        /\ ~\E j \in kept :
                              /\ j < i
                              /\ \/ Duplicates(payloadIn[i], payloadIn[j])
                                 \/ ContainedIn(payloadIn[i], payloadIn[j])
                                 \/ ContainedIn(payloadIn[j], payloadIn[i])

\* A block was skipped because it contains an earlier segment of 64 chars or
\* more, a later block was kept, and the skipped block is still in blocks.
C26_Witness ==
    /\ built.kind = "projection"
    /\ built.blocks = <<"long", "longer", "other">>
    /\ built.text_segments = <<"long", "other">>

\* ------------------------------------------------- rules_store.py, any content of the file
\* The content of the store file by its JSON shape: no text, text that is not
\* JSON, a JSON value that is not an object, or an object in which each of the
\* four keys is missing or holds an object, an array or a number.
ValueShapes == {"missing", "object", "array", "number"}

MkShape(kind, version, generated_rules, promoted_adapters, replay_samples) ==
    [kind |-> kind,
     state |-> [version |-> version, generated_rules |-> generated_rules,
                promoted_adapters |-> promoted_adapters, replay_samples |-> replay_samples]]

DefaultShape == MkShape("object", "number", "object", "object", "object")

FileShapes ==
    {MkShape(kind, "missing", "missing", "missing", "missing") :
        kind \in {"absent", "empty", "corrupt", "null", "array", "number", "string"}}
    \cup {MkShape("object", v, g, p, r) :
             v \in {"missing", "number"}, g \in ValueShapes, p \in ValueShapes,
             r \in ValueShapes}

\* _locked_state up to its yield: the state handed to the caller, or the error
\* raised by state.setdefault on a JSON value that is not an object.
LockedStateOf(f) ==
    IF f.kind \in {"absent", "empty", "corrupt"}
    THEN [error |-> "", state |-> DefaultShape.state]
    ELSE IF f.kind # "object"
         THEN [error |-> "AttributeError", state |-> f.state]
    ELSE [error |-> "",
          state |-> [key \in DOMAIN f.state |->
                        IF f.state[key] = "missing" THEN DefaultShape.state[key]
                        ELSE f.state[key]]]

StoreOps ==
    {"read_state", "get_generated_rule", "save_generated_rule", "save_promoted_adapter",
     "get_promoted_adapter_for_host", "record_replay_sample", "get_replay_samples"}

\* The error raised by the body of the operation on the state it was handed:
\* .get and .setdefault need an object (AttributeError), item assignment too (TypeError).
BodyError(op, state) ==
    CASE op \in {"get_generated_rule"} /\ state.generated_rules # "object" -> "AttributeError"
      [] op = "save_generated_rule" /\ state.generated_rules # "object" -> "TypeError"
      [] op = "save_promoted_adapter" /\ state.promoted_adapters # "object" -> "TypeError"
      [] op \in {"record_replay_sample", "get_replay_samples"}
            /\ state.replay_samples # "object" -> "AttributeError"
      [] OTHER -> ""

\* The operations that pass a mutator to mutate_state; the others call read_state
\* and work on the copy it returns.
Mutators == {"save_generated_rule", "save_promoted_adapter", "record_replay_sample"}

\* A store operation on the file as it is: its error, the state it worked on, and
\* the file afterwards (_locked_state writes the state back unless its body raised).
StoreCallOnShape(op) ==
    /\ built = NoBuilt
    /\ LET entered == LockedStateOf(file)
           error == IF entered.error # "" THEN entered.error ELSE BodyError(op, entered.state)
           written == entered.error = "" /\ (op \notin Mutators \/ error = "")
       IN  /\ built' = [kind |-> op, error |-> error, state |-> entered.state]
           /\ file' = IF written THEN [kind |-> "object", state |-> entered.state] ELSE file
    /\ UNCHANGED <<orchVars, cache, oracleAsked, promoVars, storeVars, max_chars, payloadIn,
                   validated, cacheThreads>>

ShapeInit ==
    /\ OrchestratorIdle
    /\ now = 0
    /\ file \in FileShapes
    /\ cache = <<>>
    /\ StoreIdle
    /\ cacheThreads = CacheIdle
    /\ BuilderIdle

ShapeNext == \E op \in StoreOps : StoreCallOnShape(op)

ShapeSpec == ShapeInit /\ [][ShapeNext]_vars

\* C27: whatever the store file holds, every rule-store operation completes
\* without error on a state that has the keys version, generated_rules,
\* promoted_adapters and replay_samples.
C27_AnyContentTolerated ==
    built # NoBuilt
        => /\ built.error = ""
           /\ \A key \in DOMAIN built.state : built.state[key] # "missing"

\* ------------------------------------------------- orchestrator.py, the extraction trace
\* An attempt is a Success with score and confidence and no reason, or a
\* Failure with a reason (str(exc), which is "" for an exception without a
\* message) and neither score nor confidence.
WellFormedAttempt(attempt) ==
    IF attempt.success
    THEN attempt.score \in Scores /\ attempt.confidence \in Scores /\ attempt.reason = <<>>
    ELSE /\ attempt.score = NoScore /\ attempt.confidence = NoScore
         /\ Len(attempt.reason) = 1

\* C28: once run() is in or past the strategy loop, the trace has exactly one
\* attempt per strategy whose extract was called, in the order of the calls;
\* every attempt is a well-formed Success or Failure; and a returned result
\* carries that trace and a candidate whose quality_score is the score of the
\* Success attempt appended for it.
C28_TraceWellFormed ==
    (pc = "loop" \/ LoopLeft) =>
        /\ Len(attempts) = Len(extractLog)
        /\ \A i \in 1..Len(attempts) :
            /\ attempts[i].strategy_name = extractLog[i]
            /\ attempts[i].strategy_name = strategies[i]
            /\ WellFormedAttempt(attempts[i])
        /\ Returned =>
            /\ outcome.trace = attempts
            /\ outcome.result.idx \in 1..Len(attempts)
            /\ attempts[outcome.result.idx].success
            /\ attempts[outcome.result.idx].score = outcome.result.quality_score

\* A result was returned whose trace holds a Failure before the winning Success
\* and a Success of lower score.
C28_Witness ==
    /\ Returned
    /\ Len(outcome.trace) >= 3
    /\ \E i, j \in 1..Len(outcome.trace) :
        /\ i < outcome.result.idx
        /\ ~outcome.trace[i].success
        /\ outcome.trace[j].success
        /\ outcome.trace[j].score < outcome.result.quality_score

\* ------------------------------------------------- arxiv_html_blocks.py, inline runs
\* An inline run as the dict the code reads with .get(): type, text, href and
\* children, each "" or <<>> when the key is absent.  A text is a sequence of
\* characters; "zw" is a zero-width character, "nbsp" a no-break space and
\* "$$" the two-character display-math delimiter.
MkRun(type, text, href, children) ==
    [type |-> type, text |-> text, href |-> href, children |-> children]

TextRun(text) == MkRun("text", text, "", <<>>)

WrapperTypes == {"em", "strong", "code", "sub", "sup", "underline", "strike", "smallcaps"}

RECURSIVE _sanitize_inline_text(_)
\* _sanitize_inline_text: no-break spaces become spaces, zero-width characters go.
_sanitize_inline_text(value) ==
    IF value = <<>> THEN <<>>
    ELSE (IF Head(value) = "zw" THEN <<>>
          ELSE IF Head(value) = "nbsp" THEN <<" ">>
          ELSE <<Head(value)>>) \o _sanitize_inline_text(Tail(value))

RECURSIVE Strip(_)
\* str.strip()
Strip(value) ==
    IF value = <<>> THEN <<>>
    ELSE IF Head(value) = " " THEN Strip(Tail(value))
    ELSE IF value[Len(value)] = " " THEN Strip(SubSeq(value, 1, Len(value) - 1))
    ELSE value

RECURSIVE Collapse(_)
\* re.sub(r"\s+", " ", ...)
Collapse(value) ==
    IF Len(value) < 2 THEN value
    ELSE IF Head(value) = " " /\ value[2] = " " THEN Collapse(Tail(value))
    ELSE <<Head(value)>> \o Collapse(Tail(value))

\* _normalize_inline_spacing on texts without punctuation or brackets.
_normalize_inline_spacing(value) == Strip(Collapse(_sanitize_inline_text(value)))

CharLen(value) == Len(value) + Cardinality({i \in 1..Len(value) : value[i] = "$$"})

\* _clean_equation_tex: one pair of $$ ... $$ is taken off per call.
_clean_equation_tex(value) ==
    LET cleaned == Strip(SelectSeq(value, LAMBDA c : c # "zw")) IN
    IF Len(cleaned) >= 2 /\ Head(cleaned) = "$$" /\ cleaned[Len(cleaned)] = "$$"
       /\ CharLen(cleaned) > 4
    THEN Strip(SubSeq(cleaned, 2, Len(cleaned) - 1))
    ELSE cleaned

\* The text branch: merge into a text run at the end of normalized, or append one.
AppendText(normalized, text) ==
    IF normalized # <<>> /\ normalized[Len(normalized)].type = "text"
    THEN [normalized EXCEPT ![Len(normalized)].text = @ \o text]
    ELSE Append(normalized, TextRun(text))

RECURSIVE _normalize_inline_run_list(_)
RECURSIVE NormalizeInto(_, _)

\* One pass of the loop of _normalize_inline_run_list over run.
NormalizeRun(normalized, run) ==
    LET normalized_children == _normalize_inline_run_list(run.children)
        text == _sanitize_inline_text(run.text)
    IN  IF run.type = "text"
        THEN IF text = <<>> THEN normalized ELSE AppendText(normalized, text)
        ELSE IF run.type = "math"
        THEN IF _clean_equation_tex(run.text) = <<>> THEN normalized
             ELSE Append(normalized, MkRun("math", _clean_equation_tex(run.text), "", <<>>))
        ELSE IF run.type = "link"
        THEN IF run.href = "" THEN normalized \o normalized_children
             ELSE IF normalized_children # <<>>
                  THEN Append(normalized, MkRun("link", <<>>, run.href, normalized_children))
             ELSE IF _normalize_inline_spacing(run.text) = <<>> THEN normalized
             ELSE Append(normalized,
                         MkRun("link", <<>>, run.href,
                               <<TextRun(_normalize_inline_spacing(run.text))>>))
        ELSE IF run.type \in WrapperTypes
        THEN IF normalized_children # <<>>
             THEN Append(normalized, MkRun(run.type, <<>>, "", normalized_children))
             ELSE IF text # <<>>
                  THEN Append(normalized, MkRun(run.type, <<>>, "", <<TextRun(text)>>))
             ELSE normalized
        ELSE IF text # <<>> THEN AppendText(normalized, text)
             ELSE normalized \o normalized_children

NormalizeInto(normalized, runs) ==
    IF runs = <<>> THEN normalized
    ELSE NormalizeInto(NormalizeRun(normalized, Head(runs)), Tail(runs))

_normalize_inline_run_list(runs) == NormalizeInto(<<>>, runs)

MaxRuns == 2

InlineRuns ==
    {TextRun(<<"a">>), TextRun(<<>>), TextRun(<<"zw">>), TextRun(<<"b", "nbsp">>),
     MkRun("math", <<"x">>, "", <<>>),
     MkRun("math", <<"$$", "$$", "x", "$$", "$$">>, "", <<>>),
     MkRun("link", <<>>, "#r", <<TextRun(<<"a">>)>>),
     MkRun("link", <<" ", "a", " ", " ", "b">>, "#r", <<>>),
     MkRun("link", <<>>, "", <<TextRun(<<"b">>)>>),
     MkRun("link", <<"a">>, "", <<>>),
     MkRun("em", <<>>, "", <<TextRun(<<"a">>), TextRun(<<"b">>)>>),
     MkRun("em", <<"a">>, "", <<>>),
     MkRun("strong", <<>>, "", <<TextRun(<<"zw">>)>>),
     MkRun("span", <<"a">>, "", <<TextRun(<<"b">>)>>),
     MkRun("span", <<>>, "", <<TextRun(<<"b">>)>>)}

RunLists == UNION {[1..n -> InlineRuns] : n \in 0..MaxRuns}

\* _normalize_inline_run_list on the runs of a block, and on its own result.
NormalizeRuns ==
    /\ built = NoBuilt
    /\ built' = [kind |-> "inline_runs",
                 blocks |-> _normalize_inline_run_list(payloadIn),
                 again |-> _normalize_inline_run_list(_normalize_inline_run_list(payloadIn)),
                 raw_len |-> 0]
    /\ UNCHANGED <<orchVars, file, cache, oracleAsked, promoVars, storeVars, max_chars,
                   payloadIn, validated, cacheThreads>>

InlineInit ==
    /\ OrchestratorIdle
    /\ now = 0
    /\ file = EmptyFile
    /\ cache = <<>>
    /\ StoreIdle
    /\ cacheThreads = CacheIdle
    /\ max_chars = DefaultMaxChars
    /\ payloadIn \in RunLists
    /\ built = NoBuilt

InlineNext == NormalizeRuns

InlineSpec == InlineInit /\ [][InlineNext]_vars

RECURSIVE CleanRuns(_)
\* No two adjacent text runs and no wrapper or link without children, at any depth.
CleanRuns(runs) ==
    /\ \A i \in 1..(Len(runs) - 1) : ~(runs[i].type = "text" /\ runs[i + 1].type = "text")
    /\ \A i \in 1..Len(runs) :
        /\ runs[i].type \in WrapperTypes \cup {"link"} => runs[i].children # <<>>
        /\ CleanRuns(runs[i].children)

\* C29: normalizing a list of inline runs a second time changes nothing, and
\* the normalized list has no two adjacent text runs and no empty wrapper.
C29_NormalizeIdempotent ==
    built.kind = "inline_runs"
        => /\ built.again = built.blocks
           /\ CleanRuns(built.blocks)

\* ------------------------------------------------- rules_store.py, a mutator that raises
\* mutate_state(mutator) with a mutator that changes the state it was handed and
\* then raises, next to calls that commit.
RaisingCalls == {MkCall("raising_mutator", StoreHost, id, Binary, <<>>) : id \in RuleIds}

TxnCalls == RaisingCalls \cup {MkCall("save_generated_rule", StoreHost, "ruleA", Binary, <<>>)}

TxnStart(w) ==
    /\ wpc[w] = "idle"
    /\ issued < MaxCalls
    /\ \E call \in TxnCalls : wop' = [wop EXCEPT ![w] = call]
    /\ wpc' = [wpc EXCEPT ![w] = "ensure"]
    /\ issued' = issued + 1
    /\ UNCHANGED <<orchVars, file, cache, oracleAsked, promoVars, wstate, completed,
                   partialRead, builderVars, validated, cacheThreads>>

\* The body of the with block returns: _locked_state goes on to write and unlock.
TxnCommit(w) ==
    /\ wop[w].fn # "raising_mutator"
    /\ WriteAndUnlock(w)

MutatorRaises_WritesPartial(w) ==
    /\ wpc[w] = "locked"
    /\ wop[w].fn = "raising_mutator"
    /\ file' = JsonFile(_mutate_generated(wstate[w], wop[w].host,
                                          MkRule(wop[w].host, wop[w].id, now)))
    /\ wstate' = [wstate EXCEPT ![w] = _default_state]
    /\ wop' = [wop EXCEPT ![w].fn = "raised"]
    /\ wpc' = [wpc EXCEPT ![w] = "idle"]
    /\ UNCHANGED <<orchVars, cache, oracleAsked, promoVars, issued, completed, partialRead,
                   builderVars, validated, cacheThreads>>

\* The mutator changes state in memory and raises: the exception enters
\* _locked_state at its yield, the write after the yield is skipped, finally
\* runs flock(LOCK_UN), and the exception leaves mutate_state.
MutatorRaises(w) ==
    /\ wpc[w] = "locked"
    /\ wop[w].fn = "raising_mutator"
    /\ wstate' = [wstate EXCEPT ![w] = _default_state]
    /\ wop' = [wop EXCEPT ![w].fn = "raised"]
    /\ wpc' = [wpc EXCEPT ![w] = "idle"]
    /\ UNCHANGED <<orchVars, file, cache, oracleAsked, promoVars, issued, completed,
                   partialRead, builderVars, validated, cacheThreads>>

TxnInit ==
    /\ OrchestratorIdle
    /\ now = 2
    /\ file \in {AbsentFile, EmptyFile, CorruptFile} \cup StoreInitFiles
    /\ cache = <<>>
    /\ StoreIdle
    /\ cacheThreads = CacheIdle
    /\ BuilderIdle

TxnNext ==
    \E w \in Workers :
        \/ TxnStart(w)
        \/ PathExists(w)
        \/ WriteTextOpen(w)
        \/ WriteTextData(w)
        \/ LockAndRead(w)
        \/ TxnCommit(w)
        \/ MutatorRaises(w)

TxnSpec == TxnInit /\ [][TxnNext]_vars

\* The worker takes a step of a mutate_state call whose mutator raises.
RaisingCallSteps(w) == wop[w].fn = "raising_mutator" /\ wpc'[w] # wpc[w]

\* C30 (as stated): a mutate_state call whose mutator raises ends with the
\* exception propagated and the lock released, and no step of it changes what
\* is persisted.
C30_RaisingCallLeavesContent ==
    [][\A w \in Workers :
          RaisingCallSteps(w) =>
             /\ file' = file
             /\ wpc[w] = "locked" => (wpc'[w] = "idle" /\ wop'[w].fn = "raised" /\ Unlocked')]_vars

\* C30: a mutate_state call whose mutator raises ends with the exception
\* propagated and the lock released, and writes nothing once it holds the lock;
\* before that it writes only in _ensure_store, when it found the file missing.
C30_RaisingMutatorWritesNothing ==
    [][\A w \in Workers :
          RaisingCallSteps(w) =>
             /\ wpc[w] \notin {"write_text", "write_text_data"} => file' = file
             /\ wpc[w] = "locked" => (wpc'[w] = "idle" /\ wop'[w].fn = "raised" /\ Unlocked')]_vars

\* A mutator has raised and the rule another call committed is still persisted.
C30_Witness ==
    \E w \in Workers :
        /\ wop[w].fn = "raised"
        /\ wpc[w] = "idle"
        /\ Unlocked
        /\ file.kind = "json"
        /\ get_generated_rule(file, StoreHost) = MkRule(StoreHost, "ruleA", now)

====
